---- MODULE Spec2Model ----
(***************************************************************************)
(* Model of mikeapp/mcp-iiif-images: the IIIF image handler                *)
(* (src/iiif-image-handler.js) and the tool surface that drives it         *)
(* (src/server.js).                                                        *)
(*                                                                         *)
(* JavaScript numbers are IEEE-754 binary64 values.  Every quantity the    *)
(* handler computes is either an integer (kept exactly) or the floor of a  *)
(* product of an integer with a rounded quotient / rounded square root.    *)
(* The operators of the first section compute those floors exactly as      *)
(* binary64 arithmetic does, with integer arithmetic only: the rounding    *)
(* error of the quotient's 53-bit significand is obtained by modular       *)
(* arithmetic, and the floor drops below the exact integer result exactly  *)
(* when that error moves the product past the rounding midpoint below it.  *)
(***************************************************************************)
EXTENDS Integers, Sequences, FiniteSets, TLC

----------------------------------------------------------------------------
(* JavaScript values *)

\* an optional value: <<>> is JavaScript's undefined, <<v>> a present value v
Undefined == <<>>
Some(v) == <<v>>
IsDefined(o) == o # Undefined
Val(o) == o[1]

\* Math.min on two numbers
Min(a, b) == IF a <= b THEN a ELSE b

\* a dimension that is not a number (Math.floor(0 * NaN)); every other
\* dimension is a non-negative integer
NaN == -1

----------------------------------------------------------------------------
(* binary64 arithmetic on the values the handler computes *)

\* number of fraction bits of a binary64 significand
SignificandBits == 52

RECURSIVE Pow2(_)
Pow2(n) == IF n = 0 THEN 1 ELSE 2 * Pow2(n - 1)

RECURSIVE Gcd(_, _)
Gcd(a, b) == IF b = 0 THEN a ELSE Gcd(b, a % b)

RECURSIVE Log2Up(_, _)
Log2Up(a, b) == IF 2 * b <= a THEN 1 + Log2Up(a, 2 * b) ELSE 0

RECURSIVE Log2Down(_, _)
Log2Down(a, b) == IF a < b THEN Log2Down(2 * a, b) - 1 ELSE 0

\* the binary exponent of the positive rational a/b: the e with 2^e <= a/b < 2^(e+1)
Exponent(a, b) == IF a >= b THEN Log2Up(a, b) ELSE Log2Down(a, b)

IsPow2(n) == n = Pow2(Exponent(n, 1))

\* (r * 2^k) mod b, four bits at a step while four remain
RECURSIVE ShiftMod(_, _, _)
ShiftMod(r, k, b) ==
    IF k = 0 THEN r % b
    ELSE IF k >= 4 THEN ShiftMod((16 * r) % b, k - 4, b)
    ELSE ShiftMod((2 * r) % b, k - 1, b)

\* The quotient a / b (a, b positive integers) rounded to binary64 is
\* N / 2^k with k = SignificandBits - Exponent(a, b) and N the integer nearest
\* to a * 2^k / b (ties to even).  QuotientError is b * N - a * 2^k: the
\* rounding error of the significand, scaled by b.
QuotientError(a, b) ==
    LET k == SignificandBits - Exponent(a, b)
        r == ShiftMod(a, k, b)
        lowOdd == (ShiftMod(a, k, 2 * b) - r) \div b = 1
    IN  IF 2 * r < b THEN 0 - r
        ELSE IF 2 * r > b THEN b - r
        ELSE IF lowOdd THEN b - r ELSE 0 - r

\* floor(x * s) for a binary64 s = (p * 2^k + d / t) / 2^k ... that is, s is
\* the rational p/t (exponent m, k = SignificandBits - m) with significand
\* error d / t, and x * p / t is the integer exact.  The product x * s is
\* exact + (x * d / t) / 2^k and is rounded to binary64; the floor is
\* exact - 1 exactly when the rounded product is below exact, i.e. when the
\* product lies beyond the midpoint between exact and its binary64
\* predecessor (a product on the midpoint rounds to exact, whose significand
\* is even).
FloorOfProduct(x, exact, t, m, d) ==
    LET g == 1 + m - Exponent(exact, 1) + (IF IsPow2(exact) THEN 1 ELSE 0)
        lhs == 0 - (x * d)
        below == IF g >= 0 THEN lhs * Pow2(g) > t ELSE lhs > t * Pow2(0 - g)
    IN  IF below THEN exact - 1 ELSE exact

\* Math.floor(x * (a / b)) for positive integers x, a, b.  When x * a / b is
\* not an integer its distance to the next integer (at least 1/b) exceeds
\* every rounding error, and the floor is the exact one.
FloorMulDiv(x, a, b) ==
    IF (x * a) % b # 0 THEN (x * a) \div b
    ELSE LET g == Gcd(a, b)
             p == a \div g
             t == b \div g
         IN  FloorOfProduct(x, (x * a) \div b, t, Exponent(p, t), QuotientError(p, t))

\* the integer square root of n, the r with r * r <= n < (r + 1) * (r + 1),
\* found bit by bit from the bit of value b down
RECURSIVE IsqrtFrom(_, _, _)
IsqrtFrom(n, r, b) ==
    IF b = 0 THEN r
    ELSE IF r + b <= n \div (r + b) THEN IsqrtFrom(n, r + b, b \div 2)
    ELSE IsqrtFrom(n, r, b \div 2)
Isqrt(n) == IsqrtFrom(n, 0, Pow2(15))

IsSquare(n) == Isqrt(n) * Isqrt(n) = n

\* floor of x * sqrt(a / c) in exact arithmetic: the integer square root of
\* floor(x * x * a / c), the common factors of x and c cancelled first
FloorRoot(x, a, c) ==
    LET g1 == Gcd(x, c)
        c1 == c \div g1
        g2 == Gcd(x, c1)
    IN  Isqrt(((x \div g1) * (x \div g2) * a) \div (c1 \div g2))

\* The significand error of Math.sqrt(a / c) when sqrt(a/c) is the rational
\* p/t (a/c = p*p / (t*t) in lowest terms) and the quotient a / c is itself
\* rounded with error d1 # 0: the square root of the rounded quotient is
\* p/t * sqrt(1 + eps), and its significand is the integer nearest to
\* p * 2^ks / t + d1 * 2^j / (t * p) - (a positive second-order term), with
\* ks the significand scale of p/t and j = ks - k1 - 1 < 0.
RootError(p, t, d1) ==
    LET m == Exponent(p, t)
        ks == SignificandBits - m
        k1 == SignificandBits - Exponent(p * p, t * t)
        J == Pow2(k1 + 1 - ks)
        rt == ShiftMod(p, ks, t)
        num == 2 * p * rt * J + 2 * d1 + t * p * J
        den == 2 * t * p * J
        c == IF num % den = 0 THEN (num \div den) - 1 ELSE num \div den
    IN  c * t - rt

\* Math.floor(x * Math.sqrt(a / c)) for positive integers x and a < c.  When
\* x * sqrt(a / c) is not an integer its distance to the next integer exceeds
\* every rounding error and the floor is the exact one; when it is, the
\* roundings of the quotient, of the root and of the product decide.
FloorMulSqrt(x, a, c) ==
    LET g == Gcd(a, c)
        ar == a \div g
        cr == c \div g
        p == Isqrt(ar)
        t == Isqrt(cr)
    IN  IF ~(IsSquare(ar) /\ IsSquare(cr) /\ x % t = 0)
        THEN FloorRoot(x, ar, cr)
        ELSE LET exact == (x \div t) * p
                 d1 == QuotientError(ar, cr)
             IN  IF d1 = 0
                 THEN FloorOfProduct(x, exact, t, Exponent(p, t), QuotientError(p, t))
                 ELSE FloorOfProduct(x, exact, t, Exponent(p, t), RootError(p, t, d1))

----------------------------------------------------------------------------
(* IIIFImageHandler: construction and the synchronous private methods *)

\* the default of the constructor's only parameter
DefaultMaxDimension == 2000

\* new IIIFImageHandler(maxDimension, maxArea): the constructor declares one
\* parameter and stores it; a second argument is dropped.
IIIFImageHandler(maxDimension, maxArea) ==
    [maxDimension |-> IF IsDefined(maxDimension) THEN Val(maxDimension)
                      ELSE DefaultMaxDimension]

\* a property read of the handler object: this.maxArea is never assigned
HandlerMaxArea(self) == Undefined

\* JSON values of a descriptor's "@context" and "profile" members: absent, a
\* string, or a list; a profile list holds compliance-level URIs and
\* extension objects carrying (optional) maxWidth, maxHeight, maxArea
JsUndefined == [kind |-> "undefined"]
JsString(s) == [kind |-> "string", str |-> s]
JsArray(items) == [kind |-> "array", items |-> items]
ProfileObject(mw, mh, ma) ==
    [kind |-> "object", maxWidth |-> mw, maxHeight |-> mh, maxArea |-> ma]

\* calculateConstraints, letting a declared server limit replace the handler's ceiling
calculateConstraintsServerWins(self, info, width, height, isVersion3) ==
    LET w1 == IF isVersion3 /\ IsDefined(info.maxWidth)
              THEN Min(width, Val(info.maxWidth)) ELSE Min(width, self.maxDimension)
        h1 == IF isVersion3 /\ IsDefined(info.maxHeight)
              THEN Min(height, Val(info.maxHeight))
              ELSE IF isVersion3 /\ IsDefined(info.maxWidth)
              THEN Min(height, Val(info.maxWidth))
              ELSE Min(height, self.maxDimension)
        a1 == IF isVersion3 /\ IsDefined(info.maxArea)
              THEN Min(width * height, Val(info.maxArea)) ELSE width * height
    IN  [maxWidth |-> w1, maxHeight |-> h1, maxArea |-> Some(a1)]

\* calculateConstraints without the "maxHeight defaults to maxWidth" branch
calculateConstraintsNoMirror(self, info, width, height, isVersion3) ==
    LET w1 == IF isVersion3 /\ IsDefined(info.maxWidth)
              THEN Min(width, Val(info.maxWidth)) ELSE width
        h1 == IF isVersion3 /\ IsDefined(info.maxHeight)
              THEN Min(height, Val(info.maxHeight)) ELSE height
        a1 == IF isVersion3 /\ IsDefined(info.maxArea)
              THEN Min(width * height, Val(info.maxArea)) ELSE width * height
    IN  [maxWidth |-> Min(w1, self.maxDimension),
         maxHeight |-> Min(h1, self.maxDimension),
         maxArea |-> Some(a1)]

\* calculateConstraints starting the area bound from the clamped sides
calculateConstraintsClampedArea(self, info, width, height, isVersion3) ==
    LET w1 == IF isVersion3 /\ IsDefined(info.maxWidth)
              THEN Min(width, Val(info.maxWidth)) ELSE width
        h1 == IF ~isVersion3 THEN height
              ELSE IF IsDefined(info.maxHeight) THEN Min(height, Val(info.maxHeight))
              ELSE IF IsDefined(info.maxWidth) THEN Min(height, Val(info.maxWidth))
              ELSE height
        a0 == Min(width, self.maxDimension) * Min(height, self.maxDimension)
        a1 == IF isVersion3 /\ IsDefined(info.maxArea)
              THEN Min(a0, Val(info.maxArea)) ELSE a0
    IN  [maxWidth |-> Min(w1, self.maxDimension),
         maxHeight |-> Min(h1, self.maxDimension),
         maxArea |-> Some(a1)]

\* calculateConstraints(info, width, height, isVersion3)
calculateConstraints(self, info, width, height, isVersion3) ==
    LET w1 == IF isVersion3 /\ IsDefined(info.maxWidth)
              THEN Min(width, Val(info.maxWidth)) ELSE width
        h1 == IF ~isVersion3 THEN height
              ELSE IF IsDefined(info.maxHeight) THEN Min(height, Val(info.maxHeight))
              ELSE IF IsDefined(info.maxWidth) THEN Min(height, Val(info.maxWidth))
              ELSE height
        a1 == IF isVersion3 /\ IsDefined(info.maxArea)
              THEN Min(width * height, Val(info.maxArea)) ELSE width * height
    IN  [maxWidth |-> Min(w1, self.maxDimension),
         maxHeight |-> Min(h1, self.maxDimension),
         maxArea |-> Some(a1)]

\* sizeScale = Math.min(maxWidth / width, maxHeight / height, 1.0), as the
\* pair <<numerator, denominator>> of the quotient that is the minimum
\* (<<1, 1>> for 1.0).  Rounding to binary64 is monotone and distinct
\* quotients of the model's integers round to distinct values, so the
\* minimum of the rounded quotients is the rounded minimum.
SizeScale(width, height, constraints) ==
    LET nan == \/ (width = 0 /\ constraints.maxWidth = 0)
               \/ (height = 0 /\ constraints.maxHeight = 0)
        ws == IF width = 0 THEN <<1, 1>> ELSE <<constraints.maxWidth, width>>
        hs == IF height = 0 THEN <<1, 1>> ELSE <<constraints.maxHeight, height>>
        m == IF ws[1] * hs[2] <= hs[1] * ws[2] THEN ws ELSE hs
    IN  IF nan THEN <<0, 0>>
        ELSE IF m[1] >= m[2] THEN <<1, 1>> ELSE m

\* Math.floor(x * sizeScale) for a scale <<a, b>>
FloorScaled(x, s) ==
    IF s = <<0, 0>> THEN NaN
    ELSE IF x = 0 \/ s[1] = 0 THEN 0
    ELSE FloorMulDiv(x, s[1], s[2])

\* Math.floor(x * Math.sqrt(a / c)) for 0 <= a < c
FloorAreaScaled(x, a, c) ==
    IF a = 0 \/ x = 0 THEN 0 ELSE FloorMulSqrt(x, a, c)

\* both sides floored under one scale and then shortened by a pixel
ScaledShort(width, height, s) ==
    [targetWidth |-> IF FloorScaled(width, s) > 0 THEN FloorScaled(width, s) - 1 ELSE 0,
     targetHeight |-> IF FloorScaled(height, s) > 0 THEN FloorScaled(height, s) - 1 ELSE 0]

\* both sides floored under one scale
Scaled(width, height, s) ==
    [targetWidth |-> FloorScaled(width, s), targetHeight |-> FloorScaled(height, s)]

\* the linear fit scaled by the width quotient alone
LinearFitWidthOnly(width, height, constraints) ==
    Scaled(width, height,
           IF constraints.maxWidth >= width THEN <<1, 1>>
           ELSE <<constraints.maxWidth, width>>)

\* the first stage of calculateFinalDimensions: the linear fit
LinearFit(width, height, constraints) ==
    Scaled(width, height, SizeScale(width, height, constraints))

\* the second stage of calculateFinalDimensions on the linear fit `fit`: when
\* `applies` (the generation test) and an area bound is present and
\* exceeded, both sides are scaled by sqrt(maxArea / currentArea) and floored
AreaStage(fit, maxArea, applies) ==
    IF applies /\ IsDefined(maxArea) /\ fit.targetWidth # NaN
       /\ fit.targetWidth * fit.targetHeight > Val(maxArea)
    THEN [targetWidth |-> FloorAreaScaled(fit.targetWidth, Val(maxArea),
                                          fit.targetWidth * fit.targetHeight),
          targetHeight |-> FloorAreaScaled(fit.targetHeight, Val(maxArea),
                                           fit.targetWidth * fit.targetHeight)]
    ELSE fit

\* calculateFinalDimensions without the area stage
calculateFinalDimensionsNoArea(width, height, constraints, isVersion3) ==
    LinearFit(width, height, constraints)

\* calculateFinalDimensions applying the area stage under either generation
calculateFinalDimensionsAnyVersion(width, height, constraints, isVersion3) ==
    AreaStage(LinearFit(width, height, constraints), constraints.maxArea, TRUE)

\* calculateFinalDimensions(width, height, constraints, isVersion3)
calculateFinalDimensions(width, height, constraints, isVersion3) ==
    AreaStage(LinearFit(width, height, constraints), constraints.maxArea, isVersion3)

----------------------------------------------------------------------------
(* Strings: sequences of one-character strings *)

Digits == <<"0", "1", "2", "3", "4", "5", "6", "7", "8", "9">>
IsDigit(c) == \E i \in DOMAIN Digits : Digits[i] = c
DigitValue(c) == (CHOOSE i \in DOMAIN Digits : Digits[i] = c) - 1

StrFull == <<"f", "u", "l", "l">>
StrMax == <<"m", "a", "x">>
StrPct == <<"p", "c", "t", ":">>
StrNaN == <<"N", "a", "N">>
StrInfoJson == <<"/", "i", "n", "f", "o", ".", "j", "s", "o", "n">>
StrRotationQualityFormat ==
    <<"/", "0", "/", "d", "e", "f", "a", "u", "l", "t", ".", "j", "p", "g">>

\* `${n}` for a non-negative integer or NaN
RECURSIVE DecimalString(_)
DecimalString(n) ==
    IF n < 10 THEN <<Digits[n + 1]>>
    ELSE DecimalString(n \div 10) \o <<Digits[(n % 10) + 1]>>
NumberToString(n) == IF n = NaN THEN StrNaN ELSE DecimalString(n)

\* the value of a non-empty string of digits
RECURSIVE DecimalValue(_)
DecimalValue(s) ==
    IF Len(s) = 1 THEN DigitValue(s[1])
    ELSE 10 * DecimalValue(SubSeq(s, 1, Len(s) - 1)) + DigitValue(s[Len(s)])

AllDigits(s) == \A i \in DOMAIN s : IsDigit(s[i])

\* Number(s) for a string s of digits, "-" and letters: <<v>> for the number
\* v, <<>> for NaN.  The empty string converts to 0.
StringToNumber(s) ==
    IF s = <<>> THEN <<0>>
    ELSE IF AllDigits(s) THEN <<DecimalValue(s)>>
    ELSE IF s[1] = "-" /\ Len(s) > 1 /\ AllDigits(Tail(s)) THEN <<0 - DecimalValue(Tail(s))>>
    ELSE <<>>

\* s.split(',')
RECURSIVE SplitComma(_)
SplitComma(s) ==
    IF \E i \in DOMAIN s : s[i] = ","
    THEN LET i == CHOOSE k \in DOMAIN s : s[k] = "," /\ \A j \in 1 .. (k - 1) : s[j] # ","
         IN  <<SubSeq(s, 1, i - 1)>> \o SplitComma(SubSeq(s, i + 1, Len(s)))
    ELSE <<s>>

\* s.startsWith(prefix)
StartsWith(s, prefix) ==
    Len(s) >= Len(prefix) /\ SubSeq(s, 1, Len(prefix)) = prefix

\* baseUri.replace(/\/$/, ''): one trailing separator removed
StripTrailingSlash(s) ==
    IF Len(s) > 0 /\ s[Len(s)] = "/" THEN SubSeq(s, 1, Len(s) - 1) ELSE s

----------------------------------------------------------------------------
(* IIIFImageHandler: region parsing, region size, request path *)

MsgBaseUriRequired == <<"baseUri parameter is required">>
MsgRegionFormat ==
    <<"Region must be \"full\" or in \"pct:\" format (e.g., \"pct:20,20,50,50\")">>
MsgPctFormat ==
    <<"Invalid pct: region format. Expected \"pct:x,y,width,height\" with numeric values">>
MsgRegionSign ==
    <<"Region coordinates must be non-negative and width/height must be positive">>
MsgRegionBeyond ==
    <<"Region extends beyond image boundaries (coordinates must not exceed 100%)">>
MsgMissingSize == <<"Missing width or height in info.json">>

Throw(message) == [type |-> "throw", message |-> message]

\* parseRegion without the test against 100
parseRegionUnbounded(region) ==
    IF region = <<>> \/ region = StrFull THEN [type |-> "full"]
    ELSE IF ~StartsWith(region, StrPct) THEN Throw(MsgRegionFormat)
    ELSE LET fields == SplitComma(SubSeq(region, 5, Len(region)))
             coords == [i \in DOMAIN fields |-> StringToNumber(fields[i])]
         IN  IF Len(coords) # 4 \/ \E i \in DOMAIN coords : coords[i] = <<>>
             THEN Throw(MsgPctFormat)
             ELSE IF coords[1][1] < 0 \/ coords[2][1] < 0
                     \/ coords[3][1] <= 0 \/ coords[4][1] <= 0
             THEN Throw(MsgRegionSign)
             ELSE [type |-> "pct", x |-> coords[1][1], y |-> coords[2][1],
                   width |-> coords[3][1], height |-> coords[4][1]]

\* parseRegion accepting a width or height of 0
parseRegionZeroExtent(region) ==
    IF region = <<>> \/ region = StrFull THEN [type |-> "full"]
    ELSE IF ~StartsWith(region, StrPct) THEN Throw(MsgRegionFormat)
    ELSE LET fields == SplitComma(SubSeq(region, 5, Len(region)))
             coords == [i \in DOMAIN fields |-> StringToNumber(fields[i])]
         IN  IF Len(coords) # 4 \/ \E i \in DOMAIN coords : coords[i] = <<>>
             THEN Throw(MsgPctFormat)
             ELSE IF coords[1][1] < 0 \/ coords[2][1] < 0
                     \/ coords[3][1] < 0 \/ coords[4][1] < 0
             THEN Throw(MsgRegionSign)
             ELSE IF coords[1][1] + coords[3][1] > 100 \/ coords[2][1] + coords[4][1] > 100
             THEN Throw(MsgRegionBeyond)
             ELSE [type |-> "pct", x |-> coords[1][1], y |-> coords[2][1],
                   width |-> coords[3][1], height |-> coords[4][1]]

\* parseRegion(region): a region descriptor, or the error thrown
parseRegion(region) ==
    IF region = <<>> \/ region = StrFull THEN [type |-> "full"]
    ELSE IF ~StartsWith(region, StrPct) THEN Throw(MsgRegionFormat)
    ELSE LET fields == SplitComma(SubSeq(region, 5, Len(region)))
             coords == [i \in DOMAIN fields |-> StringToNumber(fields[i])]
         IN  IF Len(coords) # 4 \/ \E i \in DOMAIN coords : coords[i] = <<>>
             THEN Throw(MsgPctFormat)
             ELSE LET x == coords[1][1]
                      y == coords[2][1]
                      width == coords[3][1]
                      height == coords[4][1]
                  IN  IF x < 0 \/ y < 0 \/ width <= 0 \/ height <= 0
                      THEN Throw(MsgRegionSign)
                      ELSE IF x + width > 100 \/ y + height > 100
                      THEN Throw(MsgRegionBeyond)
                      ELSE [type |-> "pct", x |-> x, y |-> y,
                            width |-> width, height |-> height]

\* calculateRegionDimensions(parsedRegion, imageWidth, imageHeight)
calculateRegionDimensions(parsedRegion, imageWidth, imageHeight) ==
    IF parsedRegion.type = "full"
    THEN [width |-> imageWidth, height |-> imageHeight]
    ELSE [width |-> FloorMulDiv(imageWidth, parsedRegion.width, 100),
          height |-> FloorMulDiv(imageHeight, parsedRegion.height, 100)]

\* determineSizeParameter(targetWidth, targetHeight, originalWidth, originalHeight, isVersion3)
determineSizeParameter(targetWidth, targetHeight, originalWidth, originalHeight, isVersion3) ==
    IF targetWidth # NaN /\ targetHeight # NaN
       /\ targetWidth = originalWidth /\ targetHeight = originalHeight
    THEN (IF isVersion3 THEN StrMax ELSE StrFull)
    ELSE NumberToString(targetWidth) \o <<",">> \o NumberToString(targetHeight)

\* the region parameter of the request path
RegionParam(parsedRegion) ==
    IF parsedRegion.type = "full" THEN StrFull
    ELSE StrPct \o NumberToString(parsedRegion.x) \o <<",">>
           \o NumberToString(parsedRegion.y) \o <<",">>
           \o NumberToString(parsedRegion.width) \o <<",">>
           \o NumberToString(parsedRegion.height)

\* ctx.includes('/image/3/') on the URIs the model's descriptors carry
IncludesImage3(str) ==
    str \in {"http://iiif.io/api/image/3/context.json",
             "http://iiif.io/api/image/3/level2.json"}

\* a JSON value is falsy when absent or the empty string
Falsy(v) == v.kind = "undefined" \/ (v.kind = "string" /\ v.str = "")

\* isVersion3 taken from the profile whenever there is one
IsVersion3ProfileFirst(info) ==
    LET apiVersion == IF Falsy(info.profile) THEN info.context ELSE info.profile
    IN  IF apiVersion.kind = "array"
        THEN \E i \in DOMAIN apiVersion.items :
                /\ apiVersion.items[i].kind = "string"
                /\ IncludesImage3(apiVersion.items[i].str)
        ELSE apiVersion.kind = "string" /\ IncludesImage3(apiVersion.str)

\* isVersion3, from info["@context"] || info.profile
IsVersion3(info) ==
    LET apiVersion == IF Falsy(info.context) THEN info.profile ELSE info.context
    IN  IF apiVersion.kind = "array"
        THEN \E i \in DOMAIN apiVersion.items :
                /\ apiVersion.items[i].kind = "string"
                /\ IncludesImage3(apiVersion.items[i].str)
        ELSE apiVersion.kind = "string" /\ IncludesImage3(apiVersion.str)

----------------------------------------------------------------------------
(* IIIFImageHandler: the resolution call, between its suspension points *)

MsgHttp == <<"HTTP ">>
MsgInvalidJson == <<"Invalid JSON in info.json: ">>
MsgFetchImage == <<"Failed to fetch image: HTTP ">>
DefaultContentType == "image/jpeg"

\* `HTTP ${response.status}: ${response.statusText}`
HttpMessage(response) ==
    MsgHttp \o NumberToString(response.status) \o <<": ", response.statusText>>

Base64Alphabet ==
    <<"A", "B", "C", "D", "E", "F", "G", "H", "I", "J", "K", "L", "M",
      "N", "O", "P", "Q", "R", "S", "T", "U", "V", "W", "X", "Y", "Z",
      "a", "b", "c", "d", "e", "f", "g", "h", "i", "j", "k", "l", "m",
      "n", "o", "p", "q", "r", "s", "t", "u", "v", "w", "x", "y", "z",
      "0", "1", "2", "3", "4", "5", "6", "7", "8", "9", "+", "/">>

\* Buffer.from(arrayBuffer).toString('base64') for a sequence of bytes
RECURSIVE Base64(_)
Base64(bytes) ==
    LET A(i) == Base64Alphabet[i + 1]
    IN  IF Len(bytes) = 0 THEN <<>>
        ELSE IF Len(bytes) = 1
        THEN <<A(bytes[1] \div 4), A((bytes[1] % 4) * 16), "=", "=">>
        ELSE IF Len(bytes) = 2
        THEN <<A(bytes[1] \div 4), A((bytes[1] % 4) * 16 + bytes[2] \div 16),
               A((bytes[2] % 16) * 4), "=">>
        ELSE <<A(bytes[1] \div 4), A((bytes[1] % 4) * 16 + bytes[2] \div 16),
               A((bytes[2] % 16) * 4 + bytes[3] \div 64), A(bytes[3] % 64)>>
             \o Base64(SubSeq(bytes, 4, Len(bytes)))

\* !width || !height: a member is missing from the descriptor, or is 0
MissingSize(info) ==
    \/ "width" \notin DOMAIN info
    \/ "height" \notin DOMAIN info
    \/ info.width = 0
    \/ info.height = 0

\* !baseUri: the argument is absent or the empty string
NoBaseUri(baseUri) == ~IsDefined(baseUri) \/ Val(baseUri) = <<>>

\* the default of generateImageRegionUrl's region parameter: region = 'full'
RegionOrDefault(region) == IF IsDefined(region) THEN Val(region) ELSE StrFull

\* generateImageRegionUrl up to its first await, taking the full image for a
\* selector that parseRegion rejects
BeginLenient(baseUri, region, fetchImage) ==
    IF NoBaseUri(baseUri) THEN [pc |-> "thrown", error |-> MsgBaseUriRequired]
    ELSE LET parsedRegion == parseRegion(RegionOrDefault(region))
             cleanBaseUri == StripTrailingSlash(Val(baseUri))
         IN  [pc |-> "awaitInfo",
              parsedRegion |-> IF parsedRegion.type = "throw"
                               THEN [type |-> "full"] ELSE parsedRegion,
              cleanBaseUri |-> cleanBaseUri, fetchImage |-> fetchImage,
              infoUrl |-> cleanBaseUri \o StrInfoJson]

\* generateImageRegionUrl up to its first await (lines 27-39): the frame of
\* the suspended call with the descriptor request issued, or the error thrown
Begin(baseUri, region, fetchImage) ==
    IF NoBaseUri(baseUri) THEN [pc |-> "thrown", error |-> MsgBaseUriRequired]
    ELSE LET parsedRegion == parseRegion(RegionOrDefault(region))
             cleanBaseUri == StripTrailingSlash(Val(baseUri))
         IN  IF parsedRegion.type = "throw"
             THEN [pc |-> "thrown", error |-> parsedRegion.message]
             ELSE [pc |-> "awaitInfo", parsedRegion |-> parsedRegion,
                   cleanBaseUri |-> cleanBaseUri, fetchImage |-> fetchImage,
                   infoUrl |-> cleanBaseUri \o StrInfoJson]

\* the result object with the size before the region in the path
ResultObjectSizeFirst(frame, info, isVersion3, regionDimensions, constraints, dimensions, sizeParam, regionParam) ==
    [imageUrl |-> frame.cleanBaseUri \o <<"/">> \o sizeParam \o <<"/">>
                    \o regionParam \o StrRotationQualityFormat,
     info |-> [originalDimensions |-> [width |-> info.width, height |-> info.height],
               regionDimensions |-> regionDimensions,
               finalDimensions |-> [width |-> dimensions.targetWidth,
                                    height |-> dimensions.targetHeight],
               apiVersion |-> IF isVersion3 THEN "v3" ELSE "v2",
               regionParam |-> regionParam,
               sizeParam |-> sizeParam,
               constraints |-> constraints]]

\* the result object (lines 91-110)
ResultObject(frame, info, isVersion3, regionDimensions, constraints, dimensions, sizeParam, regionParam) ==
    [imageUrl |-> frame.cleanBaseUri \o <<"/">> \o regionParam \o <<"/">>
                    \o sizeParam \o StrRotationQualityFormat,
     info |-> [originalDimensions |-> [width |-> info.width, height |-> info.height],
               regionDimensions |-> regionDimensions,
               finalDimensions |-> [width |-> dimensions.targetWidth,
                                    height |-> dimensions.targetHeight],
               apiVersion |-> IF isVersion3 THEN "v3" ELSE "v2",
               regionParam |-> regionParam,
               sizeParam |-> sizeParam,
               constraints |-> constraints]]

\* sizeParam and regionParam (lines 82-93), then the result
WithSize(frame, info, isVersion3, regionDimensions, constraints, dimensions) ==
    ResultObject(frame, info, isVersion3, regionDimensions, constraints, dimensions,
                 determineSizeParameter(dimensions.targetWidth, dimensions.targetHeight,
                                        info.width, info.height, isVersion3),
                 RegionParam(frame.parsedRegion))

\* dimensions (lines 74-80), then the rest
WithDimensions(frame, info, isVersion3, regionDimensions, constraints) ==
    WithSize(frame, info, isVersion3, regionDimensions, constraints,
             calculateFinalDimensions(regionDimensions.width, regionDimensions.height,
                                      constraints, isVersion3))

\* constraints (lines 71-72), then the rest
WithConstraints(self, frame, info, isVersion3, regionDimensions) ==
    WithDimensions(frame, info, isVersion3, regionDimensions,
                   calculateConstraints(self, info, regionDimensions.width,
                                        regionDimensions.height, isVersion3))

\* lines 62-110: isVersion3 and regionDimensions, then the rest: the result
\* object built from a parsed descriptor
Resolve(self, frame, info) ==
    WithConstraints(self, frame, info, IsVersion3(info),
                    calculateRegionDimensions(frame.parsedRegion, info.width, info.height))

\* the descriptor response handled with a message that omits the status
OnInfoStatusText(self, frame, response) ==
    IF response.kind = "reject" THEN [pc |-> "thrown", error |-> response.message]
    ELSE IF ~response.ok
    THEN [pc |-> "thrown", error |-> MsgHttp \o <<response.statusText>>]
    ELSE IF ~response.body.json
    THEN [pc |-> "thrown", error |-> MsgInvalidJson \o response.body.parseMessage]
    ELSE IF MissingSize(response.body.info)
    THEN [pc |-> "thrown", error |-> MsgMissingSize]
    ELSE [pc |-> IF frame.fetchImage THEN "awaitImage" ELSE "returned",
          info |-> response.body.info,
          result |-> Resolve(self, frame, response.body.info)]

\* generateImageRegionUrl from the descriptor response to its next await or
\* its end (lines 41-117)
OnInfo(self, frame, response) ==
    IF response.kind = "reject" THEN [pc |-> "thrown", error |-> response.message]
    ELSE IF ~response.ok THEN [pc |-> "thrown", error |-> HttpMessage(response)]
    ELSE IF ~response.body.json
    THEN [pc |-> "thrown", error |-> MsgInvalidJson \o response.body.parseMessage]
    ELSE IF MissingSize(response.body.info)
    THEN [pc |-> "thrown", error |-> MsgMissingSize]
    ELSE [pc |-> IF frame.fetchImage THEN "awaitImage" ELSE "returned",
          info |-> response.body.info,
          result |-> Resolve(self, frame, response.body.info)]

\* the image response handled with the result kept when the image fails
OnImageKeepsResult(frame, response) ==
    IF response.kind = "reject" THEN [pc |-> "thrown", error |-> response.message]
    ELSE IF ~response.ok
    THEN [pc |-> "thrown", result |-> frame.result,
          error |-> MsgFetchImage \o NumberToString(response.status)
                      \o <<": ", response.statusText>>]
    ELSE [pc |-> "returned", info |-> frame.info,
          result |-> [imageUrl |-> frame.result.imageUrl,
                      info |-> frame.result.info,
                      imageData |->
                          [contentType |-> IF IsDefined(response.contentType)
                                              /\ Val(response.contentType) # ""
                                           THEN Val(response.contentType)
                                           ELSE DefaultContentType,
                           base64 |-> Base64(response.body),
                           size |-> Len(response.body)]]]

\* fetchImageData from the image response on (lines 247-259), and the return
\* of generateImageRegionUrl (lines 114-117)
OnImage(frame, response) ==
    IF response.kind = "reject" THEN [pc |-> "thrown", error |-> response.message]
    ELSE IF ~response.ok
    THEN [pc |-> "thrown", error |-> MsgFetchImage \o NumberToString(response.status)
                                       \o <<": ", response.statusText>>]
    ELSE [pc |-> "returned", info |-> frame.info,
          result |-> [imageUrl |-> frame.result.imageUrl,
                      info |-> frame.result.info,
                      imageData |->
                          [contentType |-> IF IsDefined(response.contentType)
                                              /\ Val(response.contentType) # ""
                                           THEN Val(response.contentType)
                                           ELSE DefaultContentType,
                           base64 |-> Base64(response.body),
                           size |-> Len(response.body)]]]

----------------------------------------------------------------------------
(* The server's tool-call handler around the resolution call *)

\* new IIIFImageHandler(2000) in the server's constructor
ServerMaxDimension == 2000

ToolImage == "fetch_iiif_image"
ToolImageRegion == "fetch_iiif_image_region"
ImageTools == {ToolImage, ToolImageRegion}
NoTool == "none"

MsgUnknownTool == <<"Unknown tool: ">>
ToolPrefix(name) ==
    IF name = ToolImage THEN <<"Failed to fetch IIIF image: ">>
    ELSE <<"Failed to fetch IIIF image region: ">>

\* the step of a resolution call as it leaves the tool-call handler: a thrown
\* error is rethrown behind the tool's prefix, a returned result becomes the
\* tool's content; a call made directly on the handler is left as it is
ThroughTool(name, step) ==
    IF name = NoTool THEN step
    ELSE IF step.pc = "thrown"
    THEN [pc |-> "thrown", error |-> ToolPrefix(name) \o step.error]
    ELSE IF step.pc = "returned"
    THEN [pc |-> "returned", info |-> step.info, result |-> step.result,
          content |-> <<[type |-> "resource",
                         resource |-> [uri |-> step.result.imageUrl,
                                       mimeType |-> step.result.imageData.contentType,
                                       blob |-> step.result.imageData.base64]]>>]
    ELSE step

ToolManifest == "fetch_iiif_manifest"

MsgUrlRequired == <<"URL parameter is required">>
MsgInvalidJsonManifest == <<"Invalid JSON: ">>
MsgManifestNoContext == <<"Invalid IIIF manifest: missing @context property">>
MsgManifestContext ==
    <<"Invalid IIIF manifest: @context must contain a IIIF presentation API URL">>
MsgManifestType ==
    <<"Invalid IIIF manifest: must have @type of 'sc:Manifest' or type of 'Manifest'">>
ManifestPrefix == <<"Failed to fetch IIIF manifest: ">>

Presentation2 == "http://iiif.io/api/presentation/2/context.json"
Presentation3 == "http://iiif.io/api/presentation/3/context.json"

\* ctx.startsWith("http://iiif.io/api/presentation/") on the URIs the model's
\* documents carry
StartsWithPresentation(str) == str \in {Presentation2, Presentation3}

\* hasValidContext (lines 123-130)
HasValidContext(context) ==
    IF context.kind = "string" THEN StartsWithPresentation(context.str)
    ELSE IF context.kind = "array"
    THEN \E i \in DOMAIN context.items :
            /\ context.items[i].kind = "string"
            /\ StartsWithPresentation(context.items[i].str)
    ELSE FALSE

\* hasValidType (line 136)
HasValidType(jsonData) == jsonData.atType = "sc:Manifest" \/ jsonData.type = "Manifest"

\* the fetch_iiif_manifest branch up to its await (lines 90-97): the url
\* check stands before the try block, so its error leaves without the prefix
BeginManifest(url) ==
    IF ~IsDefined(url) \/ Val(url) = <<>>
    THEN [pc |-> "thrown", error |-> MsgUrlRequired]
    ELSE [pc |-> "awaitManifest", requestUrl |-> Val(url)]

\* the error thrown inside the try block of the manifest branch, as the catch
\* of lines 149-151 rethrows it
ManifestFailure(message) == [pc |-> "thrown", error |-> ManifestPrefix \o message]

\* the fetch_iiif_manifest branch from the response on (lines 99-151)
OnManifest(response) ==
    IF response.kind = "reject" THEN ManifestFailure(response.message)
    ELSE IF ~response.ok THEN ManifestFailure(HttpMessage(response))
    ELSE IF ~response.body.json
    THEN ManifestFailure(MsgInvalidJsonManifest \o response.body.parseMessage)
    ELSE IF Falsy(response.body.jsonData.context) THEN ManifestFailure(MsgManifestNoContext)
    ELSE IF ~HasValidContext(response.body.jsonData.context)
    THEN ManifestFailure(MsgManifestContext)
    ELSE IF ~HasValidType(response.body.jsonData) THEN ManifestFailure(MsgManifestType)
    ELSE [pc |-> "returned",
          content |-> <<[type |-> "text", text |-> response.body.jsonData]>>]

----------------------------------------------------------------------------
(* Inputs *)

\* bounds of the model
SmallCeiling == 3
SmallAreaCeiling == 4
MaxFitDim == 4
MaxFitArea == 6
MaxRegionDim == 2
MaxLimit == 2
MaxCalls == 2
MaxSessions == 3

\* constructor arguments: maxDimension omitted (the default applies) or given;
\* an area ceiling omitted/null or given
CeilingArgs == {Undefined, Some(SmallCeiling)}
AreaArgs == {Undefined, Some(SmallAreaCeiling)}

\* source sizes and bounds handed to calculateFinalDimensions; 15 and 22 are
\* the smallest sizes at which a binary64 product x * (a / x) falls below a,
\* 66 a multiple of 22 whose product with 15 / 22 rounds to the integer 45,
\* 169 / 225 the smallest ratio whose binary64 square root does
FitDims == (1 .. MaxFitDim) \cup {15, 22, 66}
FitAreas == {Undefined} \cup {Some(a) : a \in (1 .. MaxFitArea) \cup {169}}
ConstraintSets ==
    [maxWidth : FitDims, maxHeight : FitDims, maxArea : FitAreas]

\* region sizes and server-declared limits handed to calculateConstraints
RegionDims == (1 .. MaxRegionDim) \cup {2000, 3000}
Limits == {Undefined} \cup {Some(l) : l \in (1 .. MaxLimit) \cup {1000, 2500}}

Level2 == "http://iiif.io/api/image/2/level2.json"
Context2 == "http://iiif.io/api/image/2/context.json"
Context3 == "http://iiif.io/api/image/3/context.json"

\* a descriptor declaring its limits at the top level
InfoTop(w, h, ctx, mw, mh, ma) ==
    [width |-> w, height |-> h, context |-> ctx, profile |-> JsUndefined,
     maxWidth |-> mw, maxHeight |-> mh, maxArea |-> ma]

\* a descriptor declaring its limits in an extension object of the profile list
InfoProfile(w, h, ctx, mw, mh, ma) ==
    [width |-> w, height |-> h, context |-> ctx,
     profile |-> JsArray(<<JsString(Level2), ProfileObject(mw, mh, ma)>>),
     maxWidth |-> Undefined, maxHeight |-> Undefined, maxArea |-> Undefined]

\* the descriptors of size w x h the model draws
Infos(w, h) ==
    {InfoTop(w, h, JsString(Context3), mw, mh, ma) : mw \in Limits, mh \in Limits, ma \in Limits}
    \cup {InfoProfile(w, h, JsString(Context2), mw, mh, ma) : mw \in Limits, mh \in Limits, ma \in Limits}

\* base identifiers handed to a resolution call: absent, empty, plain, and
\* ending in one or two separators
BaseUris ==
    {Undefined, Some(<<>>), Some(<<"s">>), Some(<<"s", "/">>), Some(<<"s", "/", "/">>)}

\* region selectors handed to a resolution call
Pct(fields) == Some(StrPct \o fields)
RegionArgs ==
    {Undefined, Some(<<>>), Some(StrFull), Some(<<"b", "a", "d">>),
     Pct(<<"0", ",", "0", ",", "1", "0", "0", ",", "1", "0", "0">>),
     Pct(<<"1", "5", ",", "3", "0", ",", "2", "5", ",", "3", "0">>),
     Pct(<<"0", ",", "0", ",", "1", ",", "1">>),
     Pct(<<",", ",", "5", "0", ",", "5", "0">>),
     Pct(<<"0", "5", ",", "0", ",", "5", "0", ",", "5", "0">>),
     Pct(<<"5", "0", ",", "5", "0", ",", "6", "0", ",", "6", "0">>),
     Pct(<<"-", "5", ",", "0", ",", "1", "0", ",", "1", "0">>),
     Pct(<<"1", ",", "2", ",", "3">>),
     Pct(<<"a", ",", "0", ",", "1", ",", "1">>)}

\* the fetchImage argument: omitted (the default false applies) or given
FetchArgs == {Undefined, Some(FALSE), Some(TRUE)}

Level3 == "http://iiif.io/api/image/3/level2.json"

\* native sizes of the descriptors a resolution call receives
NativeSizes == {<<5040, 7520>>, <<3000, 2000>>, <<50, 49>>}

\* limit declarations <<maxWidth, maxHeight, maxArea>> of those descriptors
DeclaredLimits ==
    {<<Undefined, Undefined, Undefined>>,
     <<Some(1000), Some(1000), Undefined>>,
     <<Some(1000), Undefined, Undefined>>,
     <<Undefined, Undefined, Some(169)>>,
     <<Some(1200), Some(1800), Some(500000)>>}

\* a descriptor that lacks the width member
InfoNoWidth ==
    [height |-> 100, context |-> JsString(Context2), profile |-> JsUndefined,
     maxWidth |-> Undefined, maxHeight |-> Undefined, maxArea |-> Undefined]

\* a descriptor without "@context" whose profile names the compliance level
InfoProfileOnly(w, h) ==
    [width |-> w, height |-> h, context |-> JsUndefined, profile |-> JsString(Level3),
     maxWidth |-> Undefined, maxHeight |-> Undefined, maxArea |-> Undefined]

\* a descriptor with the given "@context" and profile, declaring the limits
\* 1000 x 1000 at the top level
InfoWith(ctx, profile) ==
    [width |-> 5040, height |-> 7520, context |-> ctx, profile |-> profile,
     maxWidth |-> Some(1000), maxHeight |-> Some(1000), maxArea |-> Undefined]

ContextAnno == "http://www.w3.org/ns/anno.jsonld"

\* descriptors whose "@context" and profile disagree, or whose "@context" is
\* a list or the empty string
MixedDescriptors ==
    {InfoWith(JsString(Context2), JsString(Level3)),
     InfoWith(JsString(Context2), JsUndefined),
     InfoWith(JsString(Context3), JsString(Level2)),
     InfoWith(JsArray(<<JsString(ContextAnno), JsString(Context3)>>), JsUndefined),
     InfoWith(JsArray(<<JsString(ContextAnno), JsString(Context2)>>), JsString(Level3)),
     InfoWith(JsString(""), JsString(Level3)),
     InfoWith(JsUndefined, JsArray(<<JsString(Level3)>>)),
     InfoWith(JsUndefined, JsUndefined)}

Descriptors ==
    {InfoTop(s[1], s[2], JsString(Context3), l[1], l[2], l[3]) :
        s \in NativeSizes, l \in DeclaredLimits}
    \cup {InfoProfile(s[1], s[2], JsString(Context2), l[1], l[2], l[3]) :
        s \in NativeSizes, l \in DeclaredLimits}
    \cup {InfoProfileOnly(s[1], s[2]) : s \in NativeSizes}
    \cup {InfoNoWidth, InfoTop(0, 100, JsString(Context3), Undefined, Undefined, Undefined)}
    \cup MixedDescriptors

Rejection == [kind |-> "reject", message |-> <<"fetch failed">>]
Failures ==
    {[kind |-> "http", ok |-> FALSE, status |-> 404, statusText |-> "Not Found"],
     [kind |-> "http", ok |-> FALSE, status |-> 500,
      statusText |-> "Internal Server Error"]}

\* what the network answers to the descriptor request
InfoResponses ==
    {Rejection} \cup Failures
    \cup {[kind |-> "http", ok |-> TRUE,
           body |-> [json |-> FALSE, parseMessage |-> <<"Unexpected token">>]]}
    \cup {[kind |-> "http", ok |-> TRUE, body |-> [json |-> TRUE, info |-> info]] :
            info \in Descriptors}

\* what the network answers to the image request
ImageResponses ==
    {Rejection} \cup Failures
    \cup {[kind |-> "http", ok |-> TRUE, contentType |-> ct, body |-> b] :
            ct \in {Undefined, Some(""), Some("image/png")},
            b \in {<<>>, <<255>>, <<255, 216>>, <<255, 216, 255, 224>>}}

\* the url argument of the manifest tool
ManifestUrls == {Undefined, Some(<<>>), Some(<<"m">>)}

\* the documents the network answers to the manifest request
ManifestDocuments ==
    [context : {JsUndefined, JsString(Presentation2), JsString(Context2),
                JsArray(<<JsString(ContextAnno), JsString(Presentation3)>>)},
     atType : {"", "sc:Manifest"},
     type : {"", "Manifest", "Collection"}]

\* what the network answers to the manifest request
ManifestResponses ==
    {Rejection} \cup Failures
    \cup {[kind |-> "http", ok |-> TRUE,
           body |-> [json |-> FALSE, parseMessage |-> <<"Unexpected token">>]]}
    \cup {[kind |-> "http", ok |-> TRUE, body |-> [json |-> TRUE, jsonData |-> d]] :
            d \in ManifestDocuments}

\* fields of the pct selectors handed to parseRegion directly: empty,
\* numbers in and out of range, a negative number, a non-number
FieldStrings ==
    {<<>>, <<"0">>, <<"1", "5">>, <<"5", "0">>, <<"1", "0", "0">>, <<"-", "5">>, <<"a">>}

\* fields joined by commas
RECURSIVE JoinComma(_)
JoinComma(fields) ==
    IF Len(fields) = 0 THEN <<>>
    ELSE IF Len(fields) = 1 THEN fields[1]
    ELSE fields[1] \o <<",">> \o JoinComma(Tail(fields))

\* "pct:" selectors of n fields drawn from F
Selectors(n, F) == {Pct(JoinComma(t)) : t \in [1 .. n -> F]}

\* the selectors handed to parseRegion directly
RegionSelectors ==
    {Undefined, Some(<<>>), Some(StrFull), Some(<<"b", "a", "d">>),
     Some(<<"f", "u", "l", "l", "x">>), Some(<<"p", "c", "t">>)}
    \cup Selectors(4, FieldStrings)
    \cup Selectors(3, FieldStrings)
    \cup Selectors(5, {<<"0">>, <<"5", "0">>})

\* region descriptors handed to calculateRegionDimensions directly: the
\* full-image descriptor and the valid pct descriptors over these values
PctOffsets == {0, 15, 70}
PctExtents == {1, 25, 29, 30, 50, 100}
RegionDescriptors ==
    {[type |-> "full"]}
    \cup {d \in [type : {"pct"}, x : PctOffsets, y : PctOffsets,
                  width : PctExtents, height : PctExtents] :
            d.x + d.width <= 100 /\ d.y + d.height <= 100}

\* native image sizes handed to calculateRegionDimensions directly
ImageDims == {49, 50, 100, 5040, 7520}

----------------------------------------------------------------------------
(* State *)

VARIABLES
    handler,    \* the IIIFImageHandler object
    given,      \* the arguments its constructor was called with
    args,       \* a direct method invocation to perform: method and arguments
    ret,        \* the value the invocation returned
    call,       \* the resolution call: its position, arguments and locals
    net,        \* the network requests the resolution call has issued
    calls,      \* concurrent resolution calls on the one handler, by caller
    transports, \* HTTP mode: the transports object, session id -> transport
    sse,        \* HTTP mode: what became of each session's SSE connection
    post        \* HTTP mode: the last POST /messages and what was done with it

httpVars == <<transports, sse, post>>

vars == <<handler, given, args, ret, call, net, calls, transports, sse, post>>

\* the callers of concurrent resolution calls
Callers == 1 .. MaxCalls

\* no concurrent call under way
NoCalls == [i \in Callers |-> [pc |-> "idle"]]

\* the session ids the SSE transports are created with
Uuids == <<"3f0c-01", "3f0c-02", "3f0c-03", "3f0c-04">>
SessionIds == {Uuids[n] : n \in 1 .. MaxSessions}

NoPost == [kind |-> "none"]

\* const transports = {}
NoTransports == [id \in {} |-> [sessionId |-> id]]

\* HTTP mode before any request
HttpIdle ==
    /\ transports = NoTransports
    /\ sse = [id \in SessionIds |-> "unused"]
    /\ post = NoPost

NoInvocation == [op |-> "none"]
NoResult == [op |-> "none"]
IdleCall == [pc |-> "idle"]

\* the method invocations the model draws
Invocations ==
    {[op |-> "calculateConstraints", info |-> info, width |-> info.width,
      height |-> info.height, isVersion3 |-> v3] :
        info \in UNION {Infos(w, h) : w \in RegionDims, h \in RegionDims},
        v3 \in BOOLEAN}
    \cup
    {[op |-> "calculateFinalDimensions", width |-> w, height |-> h,
      constraints |-> c, isVersion3 |-> v3] :
        w \in FitDims, h \in FitDims, c \in ConstraintSets, v3 \in BOOLEAN}
    \cup
    {[op |-> "parseRegion", region |-> region] : region \in RegionSelectors}
    \cup
    {[op |-> "calculateRegionDimensions", parsedRegion |-> d,
      imageWidth |-> w, imageHeight |-> h] :
        d \in RegionDescriptors, w \in ImageDims, h \in ImageDims}

\* a handler has been constructed
Constructed ==
    \E d \in CeilingArgs, a \in AreaArgs :
        /\ given = [maxDimension |-> d, maxArea |-> a]
        /\ handler = IIIFImageHandler(d, a)

----------------------------------------------------------------------------
(* Direct invocations of the handler's methods, as the test-suite performs *)

InitMethods ==
    /\ Constructed
    /\ args \in Invocations
    /\ ret = NoResult
    /\ call = IdleCall
    /\ net = <<>>
    /\ calls = NoCalls
    /\ HttpIdle

CallCalculateConstraints ==
    /\ args.op = "calculateConstraints"
    /\ ret = NoResult
    /\ ret' = [op |-> args.op,
               value |-> calculateConstraints(handler, args.info, args.width,
                                              args.height, args.isVersion3)]
    /\ UNCHANGED <<calls, httpVars, handler, given, args, call, net>>

CallCalculateFinalDimensions ==
    /\ args.op = "calculateFinalDimensions"
    /\ ret = NoResult
    /\ ret' = [op |-> args.op,
               value |-> calculateFinalDimensions(args.width, args.height,
                                                  args.constraints, args.isVersion3)]
    /\ UNCHANGED <<calls, httpVars, handler, given, args, call, net>>

\* handler.parseRegion(region); an absent argument is undefined
CallParseRegion ==
    /\ args.op = "parseRegion"
    /\ ret = NoResult
    /\ ret' = [op |-> args.op,
               value |-> IF IsDefined(args.region) THEN parseRegion(Val(args.region))
                         ELSE parseRegion(Undefined)]
    /\ UNCHANGED <<calls, httpVars, handler, given, args, call, net>>

CallCalculateRegionDimensions ==
    /\ args.op = "calculateRegionDimensions"
    /\ ret = NoResult
    /\ ret' = [op |-> args.op,
               value |-> calculateRegionDimensions(args.parsedRegion, args.imageWidth,
                                                   args.imageHeight)]
    /\ UNCHANGED <<calls, httpVars, handler, given, args, call, net>>

\* handler.calculateFinalDimensions applied to the size it has just returned,
\* under the same constraints and generation
CallCalculateFinalDimensionsAgain ==
    /\ ret.op = "calculateFinalDimensions"
    /\ ret' = [op |-> "calculateFinalDimensionsAgain",
               first |-> ret.value,
               value |-> calculateFinalDimensions(ret.value.targetWidth,
                                                  ret.value.targetHeight,
                                                  args.constraints, args.isVersion3)]
    /\ UNCHANGED <<calls, httpVars, handler, given, args, call, net>>

NextMethods ==
    \/ CallCalculateConstraints
    \/ CallCalculateFinalDimensions
    \/ CallCalculateFinalDimensionsAgain
    \/ CallParseRegion
    \/ CallCalculateRegionDimensions

SpecMethods == InitMethods /\ [][NextMethods]_vars

----------------------------------------------------------------------------
(* Resolution calls: on the handler directly, or through the server's tools *)

\* the handler the server constructs
ServerGiven == [maxDimension |-> Some(ServerMaxDimension), maxArea |-> Undefined]

Init ==
    /\ \/ Constructed
       \/ given = ServerGiven /\ handler = IIIFImageHandler(given.maxDimension, given.maxArea)
    /\ args = NoInvocation
    /\ ret = NoResult
    /\ call = IdleCall
    /\ net = <<>>
    /\ calls = NoCalls
    /\ HttpIdle

\* a call that asks for the image again wherever it stands after the descriptor
IssuedAgain(step) ==
    IF step.pc = "awaitInfo" THEN <<[kind |-> "info", url |-> step.infoUrl]>>
    ELSE IF step.pc \in {"awaitImage", "returned"}
    THEN <<[kind |-> "image", url |-> step.result.imageUrl]>>
    ELSE <<>>

\* the requests a call issues as it reaches the position of `step`
Issued(step) ==
    IF step.pc = "awaitInfo" THEN <<[kind |-> "info", url |-> step.infoUrl]>>
    ELSE IF step.pc = "awaitImage" THEN <<[kind |-> "image", url |-> step.result.imageUrl]>>
    ELSE <<>>

\* the call record once a call has entered through `tool` with the given
\* arguments and run to its first suspension point or to its end: the
\* arguments, the position, and the locals live at that position
Entered(tool, entry, baseUri, region, fetchArg, step) ==
    LET out == ThroughTool(tool, step)
        arguments == [tool |-> tool, entry |-> entry, baseUri |-> baseUri,
                      region |-> region, fetchArg |-> fetchArg]
    IN  out @@ arguments

\* the call record once a suspended call has resumed with `response` and
\* taken `step`; the responses the call has received stay on record
Resumed(step, response) ==
    Entered(call.tool, call.entry, call.baseUri, call.region, call.fetchArg, step)
        @@ (IF call.pc = "awaitInfo"
            THEN [infoResponse |-> response]
            ELSE [infoResponse |-> call.infoResponse, imageResponse |-> response])

\* fetchImage = false is the default of both public methods
FetchOrDefault(fetchArg) == IF IsDefined(fetchArg) THEN Val(fetchArg) ELSE FALSE

\* handler.generateImageUrl(baseUri, fetchImage)
GenerateImageUrl ==
    /\ call.pc = "idle"
    /\ \E baseUri \in BaseUris, fetchArg \in FetchArgs :
        /\ call' = Entered(NoTool, "generateImageUrl", baseUri, Some(StrFull),
                           fetchArg,
                           Begin(baseUri, Some(StrFull), FetchOrDefault(fetchArg)))
        /\ net' = net \o Issued(call')
    /\ UNCHANGED <<calls, httpVars, handler, given, args, ret>>

\* handler.generateImageRegionUrl(baseUri, region, fetchImage)
GenerateImageRegionUrl ==
    /\ call.pc = "idle"
    /\ \E baseUri \in BaseUris, region \in RegionArgs, fetchArg \in FetchArgs :
        /\ call' = Entered(NoTool, "generateImageRegionUrl", baseUri, region,
                           fetchArg,
                           Begin(baseUri, region, FetchOrDefault(fetchArg)))
        /\ net' = net \o Issued(call')
    /\ UNCHANGED <<calls, httpVars, handler, given, args, ret>>

\* tools/call fetch_iiif_image {baseUri}
CallFetchIiifImage ==
    /\ call.pc = "idle"
    /\ given = ServerGiven
    /\ \E baseUri \in BaseUris :
        /\ call' = Entered(ToolImage, "generateImageUrl", baseUri, Some(StrFull),
                           Some(TRUE),
                           Begin(baseUri, Some(StrFull), TRUE))
        /\ net' = net \o Issued(call')
    /\ UNCHANGED <<calls, httpVars, handler, given, args, ret>>

\* tools/call fetch_iiif_image_region {baseUri, region}
CallFetchIiifImageRegion ==
    /\ call.pc = "idle"
    /\ given = ServerGiven
    /\ \E baseUri \in BaseUris, region \in RegionArgs :
        /\ call' = Entered(ToolImageRegion, "generateImageRegionUrl", baseUri,
                           region, Some(TRUE),
                           Begin(baseUri, region, TRUE))
        /\ net' = net \o Issued(call')
    /\ UNCHANGED <<calls, httpVars, handler, given, args, ret>>

\* tools/call fetch_iiif_manifest {url}
CallFetchIiifManifest ==
    /\ call.pc = "idle"
    /\ given = ServerGiven
    /\ \E url \in ManifestUrls :
        /\ call' = BeginManifest(url) @@ [tool |-> ToolManifest, url |-> url]
        /\ net' = net \o (IF call'.pc = "awaitManifest"
                          THEN <<[kind |-> "manifest", url |-> call'.requestUrl]>>
                          ELSE <<>>)
    /\ UNCHANGED <<calls, httpVars, handler, given, args, ret>>

\* the manifest request settles and the tool call resumes
ManifestResponse ==
    /\ call.pc = "awaitManifest"
    /\ \E response \in ManifestResponses :
        call' = OnManifest(response)
                  @@ [tool |-> call.tool, url |-> call.url, manifestResponse |-> response]
    /\ UNCHANGED <<calls, httpVars, handler, given, args, ret, net>>

\* tools/call with a name the handler does not know
CallUnknownTool ==
    /\ call.pc = "idle"
    /\ given = ServerGiven
    /\ \E name \in {"fetch_image"} :
        call' = [pc |-> "thrown", tool |-> name, error |-> MsgUnknownTool \o <<name>>]
    /\ UNCHANGED <<calls, httpVars, handler, given, args, ret, net>>

\* the descriptor request settles and the call resumes
InfoResponse ==
    /\ call.pc = "awaitInfo"
    /\ \E response \in InfoResponses :
        /\ call' = Resumed(OnInfo(handler, call, response), response)
        /\ net' = net \o Issued(call')
    /\ UNCHANGED <<calls, httpVars, handler, given, args, ret>>

\* the image request settles and the call resumes
ImageResponse ==
    /\ call.pc = "awaitImage"
    /\ \E response \in ImageResponses :
        call' = Resumed(OnImage(call, response), response)
    /\ UNCHANGED <<calls, httpVars, handler, given, args, ret, net>>

Next ==
    \/ GenerateImageUrl
    \/ GenerateImageRegionUrl
    \/ CallFetchIiifImage
    \/ CallFetchIiifImageRegion
    \/ CallFetchIiifManifest
    \/ CallUnknownTool
    \/ InfoResponse
    \/ ImageResponse
    \/ ManifestResponse

Spec == Init /\ [][Next]_vars

----------------------------------------------------------------------------
(* Concurrent resolution calls on one handler *)

\* what concurrent callers hand in, and what the network answers them
ConcurrentBaseUris == {Some(<<"s">>), Some(<<"t", "/">>)}
ConcurrentRegions ==
    {Some(StrFull), Pct(<<"1", "5", ",", "3", "0", ",", "2", "5", ",", "3", "0">>)}
ConcurrentFetchArgs == {Some(FALSE), Some(TRUE)}
ConcurrentInfoResponses ==
    {[kind |-> "http", ok |-> FALSE, status |-> 404, statusText |-> "Not Found"]}
    \cup {[kind |-> "http", ok |-> TRUE, body |-> [json |-> TRUE, info |-> info]] :
            info \in {InfoTop(5040, 7520, JsString(Context3), Some(1000), Some(1000), Undefined)}}
ConcurrentImageResponses ==
    {[kind |-> "http", ok |-> FALSE, status |-> 500,
      statusText |-> "Internal Server Error"],
     [kind |-> "http", ok |-> TRUE, contentType |-> Some("image/png"), body |-> <<255>>]}

InitConcurrent ==
    /\ \/ given = [maxDimension |-> Undefined, maxArea |-> Undefined]
       \/ given = ServerGiven
    /\ handler = IIIFImageHandler(given.maxDimension, given.maxArea)
    /\ args = NoInvocation
    /\ ret = NoResult
    /\ call = IdleCall
    /\ net = <<>>
    /\ calls = NoCalls
    /\ HttpIdle

\* the locals of a caller's invocation, as seen when that invocation resumes
\* after the most recent entry of any caller: a variant in which the locals
\* live on the handler, so that the last call to enter overwrites them
FrameOfLatest(all, i) ==
    IF \E j \in DOMAIN all : all[j].pc = all[i].pc /\ j > i
    THEN all[CHOOSE j \in DOMAIN all : all[j].pc = all[i].pc /\ j > i]
    ELSE all[i]

\* the locals of a caller's invocation: each invocation of the async method
\* has its own
FrameOf(all, i) == all[i]

\* the record of a caller's call once it has resumed with `response` and taken
\* `step`
ResumedCall(own, step, response) ==
    Entered(own.tool, own.entry, own.baseUri, own.region, own.fetchArg, step)
        @@ (IF own.pc = "awaitInfo"
            THEN [infoResponse |-> response]
            ELSE [infoResponse |-> own.infoResponse, imageResponse |-> response])

\* caller i calls generateImageRegionUrl, directly or through the region tool
StartCall(i) ==
    /\ calls[i].pc = "idle"
    /\ \E baseUri \in ConcurrentBaseUris, region \in ConcurrentRegions,
          fetchArg \in ConcurrentFetchArgs, tool \in {NoTool, ToolImageRegion} :
        /\ tool = ToolImageRegion => (given = ServerGiven /\ fetchArg = Some(TRUE))
        /\ calls' = [calls EXCEPT ![i] =
                        Entered(tool, "generateImageRegionUrl", baseUri, region, fetchArg,
                                Begin(baseUri, region, FetchOrDefault(fetchArg)))]
    /\ UNCHANGED <<httpVars, handler, given, args, ret, call, net>>

\* the descriptor request of caller i settles and its call resumes
InfoResponseTo(i) ==
    /\ calls[i].pc = "awaitInfo"
    /\ \E response \in ConcurrentInfoResponses :
        calls' = [calls EXCEPT ![i] =
                    ResumedCall(calls[i], OnInfo(handler, FrameOf(calls, i), response),
                                response)]
    /\ UNCHANGED <<httpVars, handler, given, args, ret, call, net>>

\* the image request of caller i settles and its call resumes
ImageResponseTo(i) ==
    /\ calls[i].pc = "awaitImage"
    /\ \E response \in ConcurrentImageResponses :
        calls' = [calls EXCEPT ![i] =
                    ResumedCall(calls[i], OnImage(FrameOf(calls, i), response), response)]
    /\ UNCHANGED <<httpVars, handler, given, args, ret, call, net>>

\* caller i has its outcome and may call again
Settle(i) ==
    /\ calls[i].pc \in {"returned", "thrown"}
    /\ calls' = [calls EXCEPT ![i] = [pc |-> "idle"]]
    /\ UNCHANGED <<httpVars, handler, given, args, ret, call, net>>

NextConcurrent ==
    \/ \E i \in Callers : StartCall(i)
    \/ \E i \in Callers : InfoResponseTo(i)
    \/ \E i \in Callers : ImageResponseTo(i)
    \/ \E i \in Callers : Settle(i)

SpecConcurrent == InitConcurrent /\ [][NextConcurrent]_vars

----------------------------------------------------------------------------
(* HTTP mode: SSE connections and POST /messages *)

\* names every plain object inherits from Object.prototype
ObjectPrototypeKeys == {"constructor", "toString", "__proto__"}

\* the sessionId query parameter of a POST: the id of a session, an id no
\* session ever had, or such an inherited name
PostIds == SessionIds \cup {"no-such-session", "constructor"}

\* transports[sessionId] on the plain object: an own property, else a member
\* inherited from Object.prototype, else undefined
Lookup(map, key) ==
    IF key \in DOMAIN map THEN [kind |-> "transport", sessionId |-> map[key].sessionId]
    ELSE IF key \in ObjectPrototypeKeys THEN [kind |-> "inherited"]
    ELSE [kind |-> "undefined"]

\* transports[transport.sessionId] = transport
Put(map, id) == [k \in DOMAIN map \cup {id} |-> [sessionId |-> k]]

\* delete transports[transport.sessionId]
Delete(map, id) == [k \in DOMAIN map \ {id} |-> map[k]]

\* the POST handler on the value looked up (lines 238-242): a transport takes
\* the message; any other truthy value has no handlePostMessage and the call
\* throws a TypeError; undefined is answered with 400
Route(transport) ==
    IF transport.kind = "transport" THEN [kind |-> "handled", by |-> transport.sessionId]
    ELSE IF transport.kind = "inherited" THEN [kind |-> "TypeError"]
    ELSE [kind |-> "status", status |-> 400]

InitHttp ==
    /\ given = ServerGiven
    /\ handler = IIIFImageHandler(given.maxDimension, given.maxArea)
    /\ args = NoInvocation
    /\ ret = NoResult
    /\ call = IdleCall
    /\ net = <<>>
    /\ calls = NoCalls
    /\ HttpIdle

\* GET /sse: a transport with a fresh session id is created and registered
GetSse ==
    /\ post.kind # "exit"
    /\ \E id \in SessionIds :
        /\ sse[id] = "unused"
        /\ transports' = Put(transports, id)
        /\ sse' = [sse EXCEPT ![id] = "open"]
    /\ UNCHANGED <<post, calls, handler, given, args, ret, call, net>>

\* the "close" event of an SSE response
CloseSse ==
    /\ post.kind # "exit"
    /\ \E id \in SessionIds :
        /\ sse[id] = "open"
        /\ transports' = Delete(transports, id)
        /\ sse' = [sse EXCEPT ![id] = "closed"]
    /\ UNCHANGED <<post, calls, handler, given, args, ret, call, net>>

\* POST /messages?sessionId=...
PostMessages ==
    /\ post.kind # "exit"
    /\ \E sessionId \in PostIds :
        post' = [kind |-> "post", sessionId |-> sessionId,
                 wasOpen |-> sessionId \in SessionIds /\ sse[sessionId] = "open",
                 outcome |-> Route(Lookup(transports, sessionId))]
    /\ UNCHANGED <<transports, sse, calls, handler, given, args, ret, call, net>>

\* SIGINT: every transport is closed and removed, and the process exits
Sigint ==
    /\ post.kind # "exit"
    /\ transports' = NoTransports
    /\ sse' = [id \in SessionIds |-> IF sse[id] = "open" THEN "closed" ELSE sse[id]]
    /\ post' = [kind |-> "exit"]
    /\ UNCHANGED <<calls, handler, given, args, ret, call, net>>

NextHttp ==
    \/ GetSse
    \/ CloseSse
    \/ PostMessages
    \/ Sigint

SpecHttp == InitHttp /\ [][NextHttp]_vars

----------------------------------------------------------------------------
(* Properties of calculateFinalDimensions (SpecMethods) *)

Fitted == ret.op = "calculateFinalDimensions"

\* the scale min(maxWidth / width, maxHeight / height, 1) as a fraction,
\* chosen among the three candidates by exact comparison
ClaimScale(w, h, c) ==
    CHOOSE s \in {<<c.maxWidth, w>>, <<c.maxHeight, h>>, <<1, 1>>} :
        \A u \in {<<c.maxWidth, w>>, <<c.maxHeight, h>>, <<1, 1>>} :
            s[1] * u[2] <= u[1] * s[2]

\* the area of the size the linear stage alone yields
LinearArea(w, h, c) ==
    FloorMulDiv(w, ClaimScale(w, h, c)[1], ClaimScale(w, h, c)[2])
        * FloorMulDiv(h, ClaimScale(w, h, c)[1], ClaimScale(w, h, c)[2])

\* C2: for positive source sizes and positive maxWidth/maxHeight,
\* calculateFinalDimensions returns targetWidth <= min(sourceWidth, maxWidth)
\* and targetHeight <= min(sourceHeight, maxHeight).
C2_WithinBoundsNoUpsize ==
    Fitted =>
        /\ ret.value.targetWidth <= Min(args.width, args.constraints.maxWidth)
        /\ ret.value.targetHeight <= Min(args.height, args.constraints.maxHeight)

\* a fit that had to scale down, the height bound being the binding one
C2_Witness ==
    /\ Fitted
    /\ args.height > args.constraints.maxHeight
    /\ args.width <= args.constraints.maxWidth
    /\ ret.value.targetHeight = args.constraints.maxHeight
    /\ ret.value.targetWidth < args.width

\* C3: under the newer generation with maxArea present, the returned
\* dimensions satisfy targetWidth * targetHeight <= maxArea.
C3_AreaBound ==
    (Fitted /\ args.isVersion3 /\ IsDefined(args.constraints.maxArea)) =>
        ret.value.targetWidth * ret.value.targetHeight <= Val(args.constraints.maxArea)

\* a v3 fit whose linear stage exceeded maxArea and was corrected
C3_Witness ==
    /\ Fitted
    /\ args.isVersion3
    /\ IsDefined(args.constraints.maxArea)
    /\ LinearArea(args.width, args.height, args.constraints) > Val(args.constraints.maxArea)
    /\ ret.value.targetWidth * ret.value.targetHeight > 0

\* C10: under the older generation the result is the pure linear fit
\* floor(dim * min(maxWidth / width, maxHeight / height, 1)), also when a
\* maxArea smaller than the linearly fitted area is present.
C10_V2NoAreaCorrection ==
    (Fitted /\ ~args.isVersion3) =>
        LET s == ClaimScale(args.width, args.height, args.constraints)
        IN  /\ ret.value.targetWidth = FloorMulDiv(args.width, s[1], s[2])
            /\ ret.value.targetHeight = FloorMulDiv(args.height, s[1], s[2])

\* a v2 fit with a maxArea below the linearly fitted area
C10_Witness ==
    /\ Fitted
    /\ ~args.isVersion3
    /\ IsDefined(args.constraints.maxArea)
    /\ Val(args.constraints.maxArea) < ret.value.targetWidth * ret.value.targetHeight

----------------------------------------------------------------------------
(* Properties of calculateConstraints (SpecMethods) *)

Resolved == ret.op = "calculateConstraints"

NoExtension == ProfileObject(Undefined, Undefined, Undefined)

\* the extension object of a descriptor's profile list (NoExtension if none)
ExtensionOf(info) ==
    IF info.profile.kind = "array"
       /\ \E i \in DOMAIN info.profile.items : info.profile.items[i].kind = "object"
    THEN info.profile.items[CHOOSE i \in DOMAIN info.profile.items :
                                info.profile.items[i].kind = "object"]
    ELSE NoExtension

\* the limits a descriptor declares for the generation it is resolved under
Declared(info, isVersion3) ==
    IF isVersion3
    THEN ProfileObject(info.maxWidth, info.maxHeight, info.maxArea)
    ELSE ExtensionOf(info)

\* min of a number and an optional number
MinOpt(a, o) == IF IsDefined(o) THEN Min(a, Val(o)) ELSE a

\* C4: for a v2 descriptor whose profile list holds an extension object,
\* the object's limits apply as the v3 top-level fields do: maxWidth =
\* min(regionWidth, profile.maxWidth, ceiling), maxHeight = min(regionHeight,
\* profile.maxHeight, ceiling), profile.maxWidth bounding maxHeight when
\* profile.maxHeight is absent.
C4_V2ProfileLimitsApply ==
    (Resolved /\ ~args.isVersion3 /\ ExtensionOf(args.info) # NoExtension) =>
        LET ext == ExtensionOf(args.info)
        IN  /\ ret.value.maxWidth =
                  Min(MinOpt(args.width, ext.maxWidth), handler.maxDimension)
            /\ ret.value.maxHeight =
                  Min(MinOpt(args.height,
                             IF IsDefined(ext.maxHeight) THEN ext.maxHeight
                             ELSE ext.maxWidth),
                      handler.maxDimension)

\* C5: the returned maxWidth and maxHeight are each <= the handler's
\* maxDimension and <= the region's own width/height.
C5_CeilingAndRegionBound ==
    Resolved =>
        /\ ret.value.maxWidth <= handler.maxDimension
        /\ ret.value.maxWidth <= args.width
        /\ ret.value.maxHeight <= handler.maxDimension
        /\ ret.value.maxHeight <= args.height

\* a server-declared limit above the ceiling, on a region above the ceiling
C5_Witness ==
    /\ Resolved
    /\ args.isVersion3
    /\ IsDefined(args.info.maxWidth)
    /\ Val(args.info.maxWidth) > handler.maxDimension
    /\ args.width > handler.maxDimension
    /\ ret.value.maxWidth = handler.maxDimension

\* C6: a handler constructed with an area ceiling returns maxArea <= that
\* ceiling, also when the server declares a larger maxArea; with no area
\* ceiling the server-declared maxArea applies.
C6_AreaCeilingApplies ==
    Resolved =>
        /\ IsDefined(given.maxArea) =>
              /\ IsDefined(ret.value.maxArea)
              /\ Val(ret.value.maxArea) <= Val(given.maxArea)
        /\ (~IsDefined(given.maxArea) /\ args.isVersion3 /\ IsDefined(args.info.maxArea)) =>
              ret.value.maxArea =
                  Some(Min(args.width * args.height, Val(args.info.maxArea)))

\* C8: for a v3 descriptor declaring maxWidth but no maxHeight the resolved
\* maxHeight is min(regionHeight, info.maxWidth, ceiling).
C8_V3MaxHeightMirrorsMaxWidth ==
    (Resolved /\ args.isVersion3 /\ IsDefined(args.info.maxWidth)
       /\ ~IsDefined(args.info.maxHeight)) =>
        ret.value.maxHeight =
            Min(Min(args.height, Val(args.info.maxWidth)), handler.maxDimension)

\* the documented example: maxWidth 1000 on a 2000 x 3000 image yields 1000
C8_Witness ==
    /\ Resolved
    /\ args.isVersion3
    /\ args.width = 2000 /\ args.height = 3000
    /\ args.info.maxWidth = Some(1000)
    /\ ~IsDefined(args.info.maxHeight)
    /\ handler.maxDimension = DefaultMaxDimension
    /\ ret.value.maxHeight = 1000

\* C9, as stated: with no area ceiling configured and no maxArea declared,
\* the returned maxArea is unset.
C9_AreaUnsetWhenUndeclared ==
    (Resolved /\ ~IsDefined(given.maxArea)
       /\ ~IsDefined(Declared(args.info, args.isVersion3).maxArea)) =>
        ~IsDefined(ret.value.maxArea)

\* C9, amended: with no area ceiling configured and no maxArea declared, the
\* returned maxArea is regionWidth * regionHeight, a bound the fitted size
\* never exceeds, so that the area stage changes nothing downstream.
C9_AreaIsRegionAreaWhenUndeclared ==
    (Resolved /\ ~IsDefined(given.maxArea)
       /\ ~IsDefined(Declared(args.info, args.isVersion3).maxArea)) =>
        /\ ret.value.maxArea = Some(args.width * args.height)
        /\ calculateFinalDimensions(args.width, args.height, ret.value, args.isVersion3)
              = LinearFit(args.width, args.height, ret.value)

\* an undeclared area under a handler without area ceiling, on a region the
\* ceiling scales down
C9_Witness ==
    /\ Resolved
    /\ ~IsDefined(given.maxArea)
    /\ args.isVersion3
    /\ ~IsDefined(args.info.maxArea)
    /\ args.width > handler.maxDimension
    /\ ret.value.maxArea = Some(args.width * args.height)

----------------------------------------------------------------------------
(* Properties of the resolution call (Spec) *)

\* the call has built its result object
\* the call is a resolution call, made directly or through an image tool
ResolutionCall == "entry" \in DOMAIN call

Built == ResolutionCall /\ call.pc \in {"awaitImage", "returned"}

\* C1: whenever a descriptor of either generation declares maxWidth and
\* maxHeight (top level for v3, profile extension object for v2), the
\* reported finalDimensions do not exceed them, and they equal
\* floor(regionDim * min(maxWidth/regionWidth, maxHeight/regionHeight)) when
\* that scale is below 1 and the declared limits are below the handler ceiling
\* (stated for descriptors that declare no maxArea, so that no area stage
\* intervenes).
C1_FinalDimensionsWithinDeclaredLimits ==
    LET declared == Declared(call.info, IsVersion3(call.info))
    IN  (Built /\ IsDefined(declared.maxWidth) /\ IsDefined(declared.maxHeight)
               /\ ~IsDefined(declared.maxArea)) =>
            LET mw == Val(declared.maxWidth)
                mh == Val(declared.maxHeight)
                region == call.result.info.regionDimensions
                final == call.result.info.finalDimensions
                s == IF mw * region.height <= mh * region.width
                     THEN <<mw, region.width>> ELSE <<mh, region.height>>
            IN  /\ final.width <= mw
                /\ final.height <= mh
                /\ (s[1] < s[2] /\ mw <= handler.maxDimension
                               /\ mh <= handler.maxDimension) =>
                        /\ final.width = FloorMulDiv(region.width, s[1], s[2])
                        /\ final.height = FloorMulDiv(region.height, s[1], s[2])

\* the limits the README and the extension manifest publish
DocumentedMaxDimension == 1500
DocumentedMaxArea == 1000000

\* C7: the image requested by fetch_iiif_image and fetch_iiif_image_region
\* is at most 1500 wide, at most 1500 high and at most 1,000,000 pixels.
C7_PublishedLimitsHold ==
    (Built /\ call.tool \in ImageTools) =>
        LET final == call.result.info.finalDimensions
        IN  /\ final.width <= DocumentedMaxDimension
            /\ final.height <= DocumentedMaxDimension
            /\ final.width * final.height <= DocumentedMaxArea

\* the full-size keyword of a descriptor's generation
Keyword(info) == IF IsVersion3(info) THEN StrMax ELSE StrFull

\* C11: sizeParam is the keyword ("max" for v3, "full" for v2) when, and only
\* when, the target dimensions equal the region's native pixel dimensions;
\* otherwise it is the pair "<width>,<height>".
C11_KeywordIffRegionUnscaled ==
    Built =>
        LET region == call.result.info.regionDimensions
            final == call.result.info.finalDimensions
            sizeParam == call.result.info.sizeParam
        IN  IF final.width = region.width /\ final.height = region.height
            THEN sizeParam = Keyword(call.info)
            ELSE sizeParam = NumberToString(final.width) \o <<",">>
                                \o NumberToString(final.height)

----------------------------------------------------------------------------
(* Properties of parseRegion and calculateRegionDimensions (SpecMethods) *)

Parsed == ret.op = "parseRegion"

\* the selector text handed to parseRegion ("" for an absent selector)
SelectorText == IF IsDefined(args.region) THEN Val(args.region) ELSE <<>>

\* a field that is written as a number: digits, with an optional sign
IsNumeral(f) ==
    /\ f # <<>>
    /\ \/ AllDigits(f)
       \/ (Len(f) > 1 /\ f[1] = "-" /\ AllDigits(Tail(f)))

NumeralValue(f) == IF f[1] = "-" THEN 0 - DecimalValue(Tail(f)) ELSE DecimalValue(f)

\* the fields after "pct:"
FieldsOf(text) == SplitComma(SubSeq(text, 5, Len(text)))

\* the selector is "pct:" followed by exactly four numbers
FourNumbers(text) ==
    /\ StartsWith(text, StrPct)
    /\ Len(FieldsOf(text)) = 4
    /\ \A i \in 1 .. 4 : IsNumeral(FieldsOf(text)[i])

\* the four numbers of such a selector
Coordinate(text, i) == NumeralValue(FieldsOf(text)[i])

\* the four numbers violate a bound
OutOfBounds(text) ==
    \/ Coordinate(text, 1) < 0
    \/ Coordinate(text, 2) < 0
    \/ Coordinate(text, 3) <= 0
    \/ Coordinate(text, 4) <= 0
    \/ Coordinate(text, 1) + Coordinate(text, 3) > 100
    \/ Coordinate(text, 2) + Coordinate(text, 4) > 100

BoundsErrors == {MsgRegionSign, MsgRegionBeyond}
SyntaxErrors == {MsgRegionFormat, MsgPctFormat}

\* C12: for every pct selector with four numeric coordinates of which one
\* violates a bound (x < 0, y < 0, width <= 0, height <= 0, x + width > 100,
\* y + height > 100), parseRegion throws the bounds error and returns no
\* descriptor.
C12_OutOfBoundsRejected ==
    (Parsed /\ FourNumbers(SelectorText) /\ OutOfBounds(SelectorText)) =>
        /\ ret.value.type = "throw"
        /\ ret.value.message \in BoundsErrors

C12_Witness ==
    /\ Parsed
    /\ FourNumbers(SelectorText)
    /\ Coordinate(SelectorText, 1) = 50
    /\ Coordinate(SelectorText, 3) = 100
    /\ Coordinate(SelectorText, 2) + Coordinate(SelectorText, 4) <= 100
    /\ Coordinate(SelectorText, 4) > 0
    /\ ret.value = Throw(MsgRegionBeyond)

\* C13: every selector that is present, non-empty and not "full", and is not
\* "pct:" followed by exactly four numbers (too few or too many fields, a
\* field that is not a number, an empty field), is rejected with the syntax
\* error.
C13_MalformedRejected ==
    (Parsed /\ SelectorText # <<>> /\ SelectorText # StrFull
            /\ ~FourNumbers(SelectorText)) =>
        /\ ret.value.type = "throw"
        /\ ret.value.message \in SyntaxErrors

\* C14: a value returned by parseRegion is the full-image descriptor or a pct
\* descriptor with x, y, width, height in [0, 100], width > 0, height > 0,
\* x + width <= 100, y + height <= 100; an absent, empty or "full" selector
\* yields the full-image descriptor.
C14_ReturnedDescriptorValid ==
    Parsed =>
        /\ ret.value.type = "pct" =>
              /\ \A c \in {ret.value.x, ret.value.y, ret.value.width, ret.value.height} :
                    0 <= c /\ c <= 100
              /\ ret.value.width > 0
              /\ ret.value.height > 0
              /\ ret.value.x + ret.value.width <= 100
              /\ ret.value.y + ret.value.height <= 100
        /\ ret.value.type \in {"full", "pct", "throw"}
        /\ (SelectorText = <<>> \/ SelectorText = StrFull) => ret.value = [type |-> "full"]

C14_Witness ==
    /\ Parsed
    /\ ret.value.type = "pct"
    /\ ret.value.x = 50
    /\ ret.value.width = 50
    /\ ret.value.y = 0
    /\ ret.value.height = 100

Measured == ret.op = "calculateRegionDimensions"

\* C15: calculateRegionDimensions returns the native width and height for
\* the full-image descriptor, and floor(width_pct / 100 * nativeWidth),
\* floor(height_pct / 100 * nativeHeight) for a valid pct descriptor, whatever
\* its x and y.  The floor is that of the exact product.
C15_RegionDimensions ==
    Measured =>
        IF args.parsedRegion.type = "full"
        THEN ret.value = [width |-> args.imageWidth, height |-> args.imageHeight]
        ELSE /\ ret.value.width = (args.parsedRegion.width * args.imageWidth) \div 100
             /\ ret.value.height = (args.parsedRegion.height * args.imageHeight) \div 100

----------------------------------------------------------------------------
(* Properties of the request path and of the requests (Spec) *)

\* the region selector of the call ('full' is the default)
CallSelector == IF IsDefined(call.region) THEN Val(call.region) ELSE StrFull

\* the base the descriptor request was built on: its URL without "/info.json"
RequestedBase == SubSeq(net[1].url, 1, Len(net[1].url) - Len(StrInfoJson))

\* the four numbers of a selector written back as "pct:x,y,width,height"
Rebuilt(text) ==
    StrPct \o JoinComma([i \in 1 .. 4 |-> NumberToString(Coordinate(text, i))])

\* every number of the selector is written the way a number is printed
Canonical(text) ==
    /\ FourNumbers(text)
    /\ \A i \in 1 .. 4 : FieldsOf(text)[i] = NumberToString(Coordinate(text, i))

\* C16: imageUrl is <normalized base>/<regionParam>/<sizeParam>/0/default.jpg;
\* regionParam is "full" for the full image and otherwise "pct:x,y,width,height"
\* rebuilt from the parsed percentages, so that it equals the caller's
\* selector when the selector's numbers are canonical (pct:15,30,25,30).
C16_ImagePath ==
    Built =>
        LET result == call.result
            text == CallSelector
        IN  /\ result.imageUrl = RequestedBase \o <<"/">> \o result.info.regionParam
                                    \o <<"/">> \o result.info.sizeParam
                                    \o <<"/", "0", "/">> \o <<"d", "e", "f", "a", "u", "l", "t", ".", "j", "p", "g">>
            /\ (text = <<>> \/ text = StrFull) => result.info.regionParam = StrFull
            /\ FourNumbers(text) => result.info.regionParam = Rebuilt(text)
            /\ Canonical(text) => result.info.regionParam = text
            /\ result.info.regionParam = StrFull \/ StartsWith(result.info.regionParam, StrPct)

C16_Witness ==
    /\ call.pc = "returned"
    /\ CallSelector = StrPct \o <<"1", "5", ",", "3", "0", ",", "2", "5", ",", "3", "0">>
    /\ call.result.info.regionParam = CallSelector
    /\ call.result.info.originalDimensions = [width |-> 5040, height |-> 7520]
    /\ call.result.info.sizeParam = <<"1", "1", "1", "7", ",", "1", "9", "9", "9">>
    /\ call.result.imageUrl =
          <<"s", "/">> \o CallSelector \o <<"/">> \o call.result.info.sizeParam
             \o StrRotationQualityFormat


\* a base identifier without its trailing separators
RECURSIVE Normalized(_)
Normalized(base) ==
    IF Len(base) > 0 /\ base[Len(base)] = "/"
    THEN Normalized(SubSeq(base, 1, Len(base) - 1))
    ELSE base

\* C17: for every non-empty base identifier, also one ending in one or in
\* several separators, the descriptor URL requested is the normalized base
\* followed by "/info.json", with no two consecutive separators before
\* "info.json"; the image path is built on the same normalized base.
C17_NormalizedBase ==
    (ResolutionCall /\ Len(net) >= 1) =>
        /\ net[1].kind = "info"
        /\ net[1].url = Normalized(Val(call.baseUri)) \o StrInfoJson
        /\ Len(RequestedBase) > 0 => RequestedBase[Len(RequestedBase)] # "/"
        /\ Built => StartsWith(call.result.imageUrl, Normalized(Val(call.baseUri)) \o <<"/">>)

----------------------------------------------------------------------------
(* Properties of the failures and of the order of the requests (Spec) *)

\* sub occurs in s
Contains(s, sub) ==
    \E i \in 0 .. Len(s) - Len(sub) : SubSeq(s, i + 1, i + Len(sub)) = sub

\* the call has received the answer to its descriptor request
InfoAnswered == "infoResponse" \in DOMAIN call

\* the call has received the answer to its image request
ImageAnswered == "imageResponse" \in DOMAIN call

\* an HTTP response with a non-success status
NonSuccess(response) == response.kind = "http" /\ ~response.ok

\* a descriptor body that is not JSON, or has no native width or height
Malformed(response) ==
    /\ response.kind = "http"
    /\ response.ok
    /\ \/ ~response.body.json
       \/ "width" \notin DOMAIN response.body.info
       \/ "height" \notin DOMAIN response.body.info

\* the call has ended with an error and without a result
Failed == call.pc = "thrown" /\ "result" \notin DOMAIN call /\ "content" \notin DOMAIN call

\* no image request has been issued
NoImageRequest == \A i \in DOMAIN net : net[i].kind # "image"

\* C18: when the descriptor response is non-success the call fails with a
\* transport error whose message carries the numeric HTTP status; when the
\* body is not parseable JSON or lacks the native width or height it fails with
\* a malformed-descriptor error; in each case no image fetch is attempted and
\* no result is returned.
C18_DescriptorFailure ==
    InfoAnswered =>
        /\ NonSuccess(call.infoResponse) =>
              /\ Failed
              /\ NoImageRequest
              /\ Contains(call.error, NumberToString(call.infoResponse.status))
        /\ Malformed(call.infoResponse) =>
              /\ Failed
              /\ NoImageRequest
              /\ \/ Contains(call.error, MsgInvalidJson)
                 \/ Contains(call.error, MsgMissingSize)

C18_Witness ==
    /\ InfoAnswered
    /\ NonSuccess(call.infoResponse)
    /\ call.infoResponse.status = 404
    /\ call.fetchArg = Some(TRUE)
    /\ call.tool = NoTool
    /\ call.pc = "thrown"
    /\ call.error = <<"HTTP ", "4", "0", "4", ": ", "Not Found">>
    /\ Len(net) = 1

\* C19: when the image fetch is requested and the image response is
\* non-success, the whole call fails with a transport error carrying the
\* numeric status and returns no partial result; when the image response
\* succeeds without a content-type header the returned content type is
\* image/jpeg, and the reported size is the length of the fetched body.
C19_ImageFailureAndDefaults ==
    ImageAnswered =>
        /\ NonSuccess(call.imageResponse) =>
              /\ Failed
              /\ Contains(call.error, NumberToString(call.imageResponse.status))
        /\ (call.imageResponse.kind = "http" /\ call.imageResponse.ok) =>
              /\ call.pc = "returned"
              /\ ~IsDefined(call.imageResponse.contentType) =>
                    call.result.imageData.contentType = "image/jpeg"
              /\ IsDefined(call.imageResponse.contentType)
                    /\ Val(call.imageResponse.contentType) # "" =>
                    call.result.imageData.contentType = Val(call.imageResponse.contentType)
              /\ call.result.imageData.size = Len(call.imageResponse.body)

C19_Witness ==
    /\ ImageAnswered
    /\ NonSuccess(call.imageResponse)
    /\ call.imageResponse.status = 500
    /\ call.tool = NoTool
    /\ call.pc = "thrown"
    /\ "result" \notin DOMAIN call
    /\ Len(net) = 2

\* the descriptor fetch and the computation on the descriptor succeeded
DescriptorSucceeded ==
    /\ InfoAnswered
    /\ call.infoResponse.kind = "http"
    /\ call.infoResponse.ok
    /\ call.infoResponse.body.json
    /\ ~MissingSize(call.infoResponse.body.info)

\* C20: a resolution call issues at most two network operations, the
\* descriptor fetch and then the image fetch; the image fetch is issued only if
\* fetchImage is true and the descriptor fetch and the computation succeeded;
\* each operation is attempted once, also after a failure.
C20_AtMostTwoRequestsInOrder ==
    ResolutionCall =>
        /\ Len(net) <= 2
        /\ Len(net) >= 1 => net[1].kind = "info"
        /\ Len(net) = 2 =>
              /\ net[2].kind = "image"
              /\ FetchOrDefault(call.fetchArg)
              /\ DescriptorSucceeded
        /\ (InfoAnswered /\ ~DescriptorSucceeded) => Len(net) = 1
        /\ (ImageAnswered /\ call.pc = "thrown") => Len(net) = 2

C20_Witness ==
    /\ call.pc = "thrown"
    /\ ImageAnswered
    /\ call.imageResponse.kind = "reject"
    /\ Len(net) = 2
    /\ net[1].kind = "info"
    /\ net[2].kind = "image"

----------------------------------------------------------------------------
(* Further properties of calculateFinalDimensions (SpecMethods) *)

\* C23: when no area bound is present, calculateFinalDimensions returns
\* exactly targetWidth = floor(width * s) and targetHeight = floor(height * s)
\* with s = min(maxWidth / width, maxHeight / height, 1), each truncated on its
\* own; when s = 1 the source dimensions are returned unchanged.  The floor is
\* that of the exact product.
C23_ExactLinearFit ==
    (Fitted /\ ~IsDefined(args.constraints.maxArea)) =>
        LET s == ClaimScale(args.width, args.height, args.constraints)
        IN  /\ ret.value.targetWidth = (args.width * s[1]) \div s[2]
            /\ ret.value.targetHeight = (args.height * s[1]) \div s[2]
            /\ s[1] = s[2] =>
                  /\ ret.value.targetWidth = args.width
                  /\ ret.value.targetHeight = args.height

----------------------------------------------------------------------------
(* The worked example of the fit (Spec) *)

\* a call for the full image of the 5040 x 7520 source resolved under
\* maxWidth 1000 and maxHeight 1000
ExampleResolved ==
    /\ Built
    /\ call.result.info.regionParam = StrFull
    /\ call.result.info.originalDimensions = [width |-> 5040, height |-> 7520]
    /\ call.result.info.constraints.maxWidth = 1000
    /\ call.result.info.constraints.maxHeight = 1000

\* C24 as stated: for a source of 5040 x 7520 with constraints
\* {maxWidth: 1000, maxHeight: 1000} and the full region, the fitted target
\* dimensions are (670, 999).
C24_ExampleAsStated ==
    ExampleResolved =>
        call.result.info.finalDimensions = [width |-> 670, height |-> 999]

\* C24: for a source of 5040 x 7520 with constraints {maxWidth: 1000,
\* maxHeight: 1000} and the full region, the fitted target dimensions are
\* (670, 1000).
C24_Example ==
    ExampleResolved =>
        call.result.info.finalDimensions = [width |-> 670, height |-> 1000]

C24_Witness ==
    /\ ExampleResolved
    /\ call.pc = "returned"
    /\ call.result.info.apiVersion = "v3"
    /\ call.result.info.sizeParam = <<"6", "7", "0", ",", "1", "0", "0", "0">>

----------------------------------------------------------------------------
(* Aspect ratio and idempotence of calculateFinalDimensions (SpecMethods) *)

Abs(n) == IF n < 0 THEN 0 - n ELSE n

Max(a, b) == IF a >= b THEN a ELSE b

\* the area stage applied to the fit of the invocation
AreaCorrected ==
    /\ args.isVersion3
    /\ IsDefined(args.constraints.maxArea)
    /\ LinearArea(args.width, args.height, args.constraints) > Val(args.constraints.maxArea)

\* |targetWidth * height - targetHeight * width|
Skew == Abs(ret.value.targetWidth * args.height - ret.value.targetHeight * args.width)

\* C25: calculateFinalDimensions preserves the aspect ratio within the
\* rounding of its floors: |targetWidth * height - targetHeight * width| is
\* below max(width, height) after the linear fit, and below
\* 2 * max(width, height) after an area correction.
C25_AspectRatioWithinRounding ==
    Fitted =>
        IF AreaCorrected
        THEN Skew < 2 * Max(args.width, args.height)
        ELSE Skew < Max(args.width, args.height)

Refitted == ret.op = "calculateFinalDimensionsAgain"

\* C29: calculateFinalDimensions is idempotent: applied again to its own
\* result under the same constraints and generation, it returns that result
\* unchanged.
C29_Idempotent == Refitted => ret.value = ret.first

\* a size that was scaled down and corrected for area, and is kept as it is
\* by the second application
C29_Witness ==
    /\ Refitted
    /\ AreaCorrected
    /\ ret.first.targetWidth < args.width
    /\ ret.first.targetWidth > 0
    /\ ret.first.targetHeight > 0
    /\ ret.value = ret.first

----------------------------------------------------------------------------
(* Properties of the resolved sizes and of the generation (Spec) *)

\* a pair "<w>,<h>" of positive integers
PositivePair(sizeParam, width, height) ==
    /\ width >= 1
    /\ height >= 1
    /\ sizeParam = NumberToString(width) \o <<",">> \o NumberToString(height)

\* C27: for a descriptor with positive native width and height, an accepted
\* selector and a positive handler ceiling, the region's pixel extent and the
\* final target width and height are integers >= 1, and sizeParam is the
\* keyword or a pair of positive integers, never a zero or a not-a-number.
C27_PositiveSizes ==
    (Built /\ call.info.width >= 1 /\ call.info.height >= 1
           /\ handler.maxDimension >= 1) =>
        LET region == call.result.info.regionDimensions
            final == call.result.info.finalDimensions
            sizeParam == call.result.info.sizeParam
        IN  /\ region.width >= 1
            /\ region.height >= 1
            /\ final.width >= 1
            /\ final.height >= 1
            /\ \/ sizeParam \in {StrFull, StrMax}
               \/ PositivePair(sizeParam, final.width, final.height)


\* an "@context" that is absent: missing, or the empty string
Absent(v) == v.kind = "undefined" \/ (v.kind = "string" /\ v.str = "")

\* a string containing /image/3/, or a list with at least one such string
NamesImage3(v) ==
    \/ v.kind = "string" /\ IncludesImage3(v.str)
    \/ v.kind = "array" /\ \E i \in DOMAIN v.items :
                              v.items[i].kind = "string" /\ IncludesImage3(v.items[i].str)

\* the generation of a descriptor: that of its "@context", or of its profile
\* when the "@context" is absent
NewerGeneration(info) ==
    IF Absent(info.context) THEN NamesImage3(info.profile) ELSE NamesImage3(info.context)

\* the maxWidth a resolution under the given generation yields: the
\* top-level declaration counts under the newer generation only
WidthBoundUnder(v3, info, regionWidth) ==
    IF v3 /\ IsDefined(info.maxWidth)
    THEN Min(Min(regionWidth, Val(info.maxWidth)), handler.maxDimension)
    ELSE Min(regionWidth, handler.maxDimension)

\* C28: a descriptor is treated as v3 exactly when its "@context", or its
\* profile when "@context" is absent, is a string containing /image/3/ or a
\* list with such a string; every other descriptor, also one with a non-v3
\* "@context" and a v3 profile, is treated as v2; the reported apiVersion and
\* the keyword of sizeParam agree with the generation used to resolve the
\* constraints.
C28_GenerationConsistent ==
    Built =>
        LET v3 == NewerGeneration(call.info)
            result == call.result.info
        IN  /\ result.apiVersion = IF v3 THEN "v3" ELSE "v2"
            /\ result.sizeParam \in {StrFull, StrMax} =>
                  result.sizeParam = IF v3 THEN StrMax ELSE StrFull
            /\ result.constraints.maxWidth =
                  WidthBoundUnder(v3, call.info, result.regionDimensions.width)

\* a descriptor with a v2 "@context" and a v3 profile, resolved as v2: the
\* declared limit of 1000 is not applied
C28_Witness ==
    /\ call.pc = "returned"
    /\ call.info.context = JsString(Context2)
    /\ call.info.profile = JsString(Level3)
    /\ call.info.maxWidth = Some(1000)
    /\ call.result.info.apiVersion = "v2"
    /\ call.result.info.regionParam = StrFull
    /\ call.result.info.constraints.maxWidth = 2000

----------------------------------------------------------------------------
(* The order of validation and descriptor fetch (Spec) *)

\* a selector that is not "full" and is not four numbers within the bounds:
\* no "pct:" prefix, a wrong number of fields, a field that is neither empty
\* nor a number, or four numbers out of bounds
Rejected(text) ==
    /\ text # <<>>
    /\ text # StrFull
    /\ \/ ~StartsWith(text, StrPct)
       \/ Len(FieldsOf(text)) # 4
       \/ \E i \in DOMAIN FieldsOf(text) :
             FieldsOf(text)[i] # <<>> /\ ~IsNumeral(FieldsOf(text)[i])
       \/ FourNumbers(text) /\ OutOfBounds(text)

\* a resolution call was made with a base identifier and such a selector
CalledWithRejected ==
    /\ call.pc # "idle"
    /\ "baseUri" \in DOMAIN call
    /\ ~NoBaseUri(call.baseUri)
    /\ Rejected(CallSelector)

\* C26 as stated: the descriptor is fetched before the region selector is
\* parsed and validated, so a call with an invalid selector issues the
\* descriptor request (and reports the transport error when that fails).
C26_FetchBeforeValidation ==
    CalledWithRejected =>
        /\ Len(net) >= 1
        /\ net[1].kind = "info"

\* C26: the region selector is parsed and validated before the descriptor is
\* fetched: a call with an invalid selector fails with the region error and
\* issues no request, whatever the descriptor fetch would have answered; a
\* descriptor request is issued only for an accepted selector.
C26_ValidationBeforeFetch ==
    /\ CalledWithRejected =>
          /\ net = <<>>
          /\ call.pc = "thrown"
          /\ \E m \in BoundsErrors \cup SyntaxErrors : Contains(call.error, m)
    /\ (ResolutionCall /\ Len(net) >= 1) => ~Rejected(CallSelector)

C26_Witness ==
    /\ CalledWithRejected
    /\ call.tool = ToolImageRegion
    /\ CallSelector = StrPct \o <<"5", "0", ",", "5", "0", ",", "6", "0", ",", "6", "0">>
    /\ call.pc = "thrown"
    /\ call.error = ToolPrefix(ToolImageRegion) \o MsgRegionBeyond
    /\ net = <<>>

----------------------------------------------------------------------------
(* Errors leaving the tool-call handler (Spec) *)

Tools == {ToolManifest, ToolImage, ToolImageRegion}

\* the prefix of each tool
PrefixOf(tool) == IF tool = ToolManifest THEN ManifestPrefix ELSE ToolPrefix(tool)

\* the messages of the underlying errors: missing parameter, invalid region,
\* transport failure, malformed document
Causes ==
    {MsgBaseUriRequired, MsgUrlRequired, MsgMissingSize,
     MsgManifestNoContext, MsgManifestContext, MsgManifestType}
    \cup BoundsErrors \cup SyntaxErrors
    \cup {Rejection.message}
    \cup {HttpMessage(f) : f \in Failures}
    \cup {MsgFetchImage \o NumberToString(f.status) \o <<": ", f.statusText>> : f \in Failures}
    \cup {MsgInvalidJson \o <<"Unexpected token">>,
          MsgInvalidJsonManifest \o <<"Unexpected token">>}

\* an error has left the handler of one of the three tools
ToolFailed == call.pc = "thrown" /\ call.tool \in Tools

\* C21: every error that leaves the tool-call handler, for any of the three
\* tools and any cause (missing parameter, invalid region, transport failure,
\* malformed document), has a message that begins with the prefix of the tool
\* called and contains the underlying message unchanged.
C21_ToolErrorsPrefixed ==
    ToolFailed => \E m \in Causes : call.error = PrefixOf(call.tool) \o m

----------------------------------------------------------------------------
(* Independence of concurrent calls (SpecConcurrent) *)

\* what a call yields: where it stands, and its error, result and content
Outcome(c) ==
    [pc |-> c.pc,
     error |-> IF "error" \in DOMAIN c THEN Some(c.error) ELSE Undefined,
     result |-> IF "result" \in DOMAIN c THEN Some(c.result) ELSE Undefined,
     content |-> IF "content" \in DOMAIN c THEN Some(c.content) ELSE Undefined]

\* the first step of a call run alone with the arguments of c
AloneBegin(c) == Begin(c.baseUri, c.region, FetchOrDefault(c.fetchArg))

\* the second step of a call run alone on a fresh handler of the same
\* configuration, with the descriptor response of c
AloneOnInfo(c) ==
    OnInfo(IIIFImageHandler(given.maxDimension, given.maxArea), AloneBegin(c), c.infoResponse)

\* the call of c run alone on a fresh handler with the same configuration,
\* arguments and responses, as far as c has got
Alone(c) ==
    ThroughTool(c.tool,
        IF "imageResponse" \in DOMAIN c THEN OnImage(AloneOnInfo(c), c.imageResponse)
        ELSE IF "infoResponse" \in DOMAIN c THEN AloneOnInfo(c)
        ELSE AloneBegin(c))

\* C22: no resolution call changes the handler configuration, and for any
\* interleaving of concurrent calls at their suspension points, also after
\* earlier failed calls, each call's outcome is that of the same call run
\* alone on a fresh handler with the same configuration, arguments and
\* server responses.
C22_CallsIndependent ==
    /\ handler = IIIFImageHandler(given.maxDimension, given.maxArea)
    /\ \A i \in Callers :
          calls[i].pc # "idle" => Outcome(calls[i]) = Outcome(Alone(calls[i]))

\* two calls with different arguments, both past their descriptor response
\* while both were under way: one has returned, the other has failed
C22_Witness ==
    /\ calls[1].pc = "returned"
    /\ calls[2].pc = "thrown"
    /\ "infoResponse" \in DOMAIN calls[1]
    /\ "infoResponse" \in DOMAIN calls[2]
    /\ calls[1].baseUri # calls[2].baseUri
    /\ calls[1].region # calls[2].region
    /\ calls[1].result.info.originalDimensions.width = 5040

----------------------------------------------------------------------------
(* Routing of POST /messages (SpecHttp) *)

\* C30: in HTTP mode, for any interleaving of GET /sse connections, closes
\* and POST /messages requests, a POST with sessionId s is passed to a
\* transport exactly when an SSE connection with session id s has been opened
\* and has not yet closed, and then to that session's transport; otherwise it
\* is answered with status 400 and no transport handles it.
C30_PostRouting ==
    post.kind = "post" =>
        IF post.wasOpen
        THEN post.outcome = [kind |-> "handled", by |-> post.sessionId]
        ELSE post.outcome = [kind |-> "status", status |-> 400]

====
